---------------------------- MODULE Spec2Model ----------------------------
(***************************************************************************)
(* The ledger and aggregation engine of OrcaMais (src/src/core/            *)
(* DataManager.ts): one DataManager instance over a localStorage blob.     *)
(*                                                                         *)
(* JavaScript strings are sequences of one-character strings, so that      *)
(* substring, trim, toLowerCase, parseFloat and btoa are computed and not  *)
(* assumed.  JavaScript numbers are records [k, v]: a finite integer, NaN, *)
(* +Infinity, -Infinity, or the null that JSON.stringify writes for a      *)
(* non-finite number.  Amounts are whole units (no fractional digits).     *)
(***************************************************************************)
EXTENDS Integers, Sequences, FiniteSets, TLC

(***************************************************************************)
(* Bounds of the model.                                                    *)
(***************************************************************************)
MaxEntries == 3         \* transactions, income entries and added categories, all accounts together
MaxWriteFailures == 1   \* localStorage.setItem calls that throw
MaxClock == 1           \* Date.now() readings are 0..MaxClock

(***************************************************************************)
(* JavaScript values.                                                      *)
(***************************************************************************)
UNDEF == <<"undefined">>    \* the value undefined, where a string may stand
NULL == <<"null">>          \* the value null, where a user id may stand

Fin(n) == [k |-> "fin", v |-> n]
NaN == [k |-> "nan", v |-> 0]
PosInf == [k |-> "pinf", v |-> 0]
NegInf == [k |-> "ninf", v |-> 0]
JsonNull == [k |-> "null", v |-> 0]
NoNumber == [k |-> "undef", v |-> 0]    \* undefined passed where a number is expected
\* a function inherited from Object.prototype, read where a number is expected
InheritedFunction == [k |-> "function", v |-> 0]
\* the string left + right that + makes when an operand is not a number
Concatenation(left, right) == [k |-> "string", v |-> <<left, right>>]

IsFinite(x) == x.k = "fin"

\* ToNumber of a stored amount: null coerces to 0 in arithmetic; a function
\* and the strings made of one are not numerals.
ToNumber(x) ==
    CASE x.k = "null" -> Fin(0)
      [] x.k \in {"function", "string"} -> NaN
      [] OTHER -> x

\* JavaScript truthiness of a number: 0, NaN and null are falsy; a function
\* and a string that is not empty are truthy.
NumTruthy(x) == x.k \in {"pinf", "ninf", "function", "string"} \/ (x.k = "fin" /\ x.v # 0)

\* JavaScript truthiness of a string: undefined and "" are falsy.
\* Faulty variant: only undefined counts as absent.
StrTruthy_Defined(s) == s # UNDEF

StrTruthy(s) == s \notin {UNDEF, NULL, << >>}

NumNeg(x) ==
    CASE x.k = "fin" -> Fin(0 - x.v)
      [] x.k = "pinf" -> NegInf
      [] x.k = "ninf" -> PosInf
      [] OTHER -> x

\* a + b of IEEE-754 doubles, on whole numbers; a concatenation of strings
\* when an operand is a function or a string.
NumAdd(a0, b0) ==
    LET a == ToNumber(a0)
        b == ToNumber(b0)
    IN  CASE a0.k \in {"function", "string"} \/ b0.k \in {"function", "string"}
                -> Concatenation(a0, b0)
          [] a.k = "nan" \/ b.k = "nan" -> NaN
          [] a.k = "fin" /\ b.k = "fin" -> Fin(a.v + b.v)
          [] a.k = "fin" -> b
          [] b.k = "fin" -> a
          [] a.k = b.k -> a
          [] OTHER -> NaN

NumSub(a, b) == NumAdd(ToNumber(a), NumNeg(ToNumber(b)))

\* a > b: false whenever an operand is NaN.
NumGt(a0, b0) ==
    LET a == ToNumber(a0)
        b == ToNumber(b0)
    IN  CASE a.k = "nan" \/ b.k = "nan" -> FALSE
          [] a.k = "fin" /\ b.k = "fin" -> a.v > b.v
          [] a.k = "pinf" -> b.k # "pinf"
          [] a.k = "ninf" -> FALSE
          [] OTHER -> b.k = "ninf"

\* a === b on numbers: NaN equals nothing, itself included.
NumEq(a, b) == a.k # "nan" /\ b.k # "nan" /\ a = b


(***************************************************************************)
(* JavaScript string functions.                                            *)
(***************************************************************************)
Digits == <<"0", "1", "2", "3", "4", "5", "6", "7", "8", "9">>
IsDigit(c) == \E i \in 1..10 : Digits[i] = c
DigitVal(c) == (CHOOSE i \in 1..10 : Digits[i] = c) - 1
IsSpace(c) == c = " "

StartsWith(s, p) == Len(s) >= Len(p) /\ SubSeq(s, 1, Len(p)) = p

\* String.prototype.trimStart / trim
RECURSIVE TrimStart(_)
TrimStart(s) ==
    IF s # <<>> /\ IsSpace(Head(s)) THEN TrimStart(Tail(s)) ELSE s

RECURSIVE TrimEnd(_)
TrimEnd(s) ==
    IF s # <<>> /\ IsSpace(s[Len(s)]) THEN TrimEnd(SubSeq(s, 1, Len(s) - 1)) ELSE s

Trim(s) == TrimEnd(TrimStart(s))

\* String.prototype.substring(0, n)
Substring0(s, n) == SubSeq(s, 1, IF Len(s) < n THEN Len(s) ELSE n)

\* The number of leading decimal digits of s.
RECURSIVE DigitPrefixLen(_)
DigitPrefixLen(s) ==
    IF s # <<>> /\ IsDigit(Head(s)) THEN 1 + DigitPrefixLen(Tail(s)) ELSE 0

\* The value of a string of decimal digits.
RECURSIVE DigitsValue(_)
DigitsValue(s) ==
    IF s = <<>> THEN 0
    ELSE 10 * DigitsValue(SubSeq(s, 1, Len(s) - 1)) + DigitVal(s[Len(s)])

InfinityWord == <<"I", "n", "f", "i", "n", "i", "t", "y">>

\* parseFloat(x): leading white space is skipped, then the longest prefix that
\* is a decimal literal (sign, digits, or Infinity) is the value; NaN when
\* there is none.  undefined is first converted to the string "undefined".
ParseFloat(x) ==
    IF x = UNDEF THEN NaN
    ELSE LET t == TrimStart(x)
             neg == t # <<>> /\ Head(t) = "-"
             signed == t # <<>> /\ Head(t) \in {"-", "+"}
             u == IF signed THEN Tail(t) ELSE t
             n == DigitPrefixLen(u)
         IN  IF StartsWith(u, InfinityWord)
             THEN (IF neg THEN NegInf ELSE PosInf)
             ELSE IF n = 0 THEN NaN
             ELSE LET m == DigitsValue(SubSeq(u, 1, n))
                  IN  Fin(IF neg THEN 0 - m ELSE m)

\* The decimal digits of a natural number.
RECURSIVE NatToString(_)
NatToString(n) ==
    IF n < 10 THEN <<Digits[n + 1]>>
    ELSE NatToString(n \div 10) \o <<Digits[(n % 10) + 1]>>

\* Number.prototype.toString()
NumToString(x) ==
    CASE x.k = "fin" /\ x.v >= 0 -> NatToString(x.v)
      [] x.k = "fin" /\ x.v < 0 -> <<"-">> \o NatToString(0 - x.v)
      [] x.k = "pinf" -> InfinityWord
      [] x.k = "ninf" -> <<"-">> \o InfinityWord
      [] OTHER -> <<"N", "a", "N">>


\* The printable ASCII characters, in code order from 32 (space) to 126; the
\* grave accent (96), which no string literal can hold, is a token of its own.
Ascii ==
    <<
    " ", "!", "\"", "#", "$", "%", "&", "'", "(", ")", "*", "+",
    ",", "-", ".", "/", "0", "1", "2", "3", "4", "5", "6", "7",
    "8", "9", ":", ";", "<", "=", ">", "?", "@", "A", "B", "C",
    "D", "E", "F", "G", "H", "I", "J", "K", "L", "M", "N", "O",
    "P", "Q", "R", "S", "T", "U", "V", "W", "X", "Y", "Z", "[",
    "\\", "]", "^", "_", "<grave>", "a", "b", "c", "d", "e", "f", "g",
    "h", "i", "j", "k", "l", "m", "n", "o", "p", "q", "r", "s",
    "t", "u", "v", "w", "x", "y", "z", "{", "|", "}", "~"
    >>

\* String.prototype.charCodeAt(0), as a table
\* with the codes of four characters beyond ASCII that btoa accepts
Latin1Codes == ("©" :> 169) @@ ("½" :> 189) @@ ("ç" :> 231) @@ ("þ" :> 254)

CharCodes ==
    [c \in {Ascii[i] : i \in 1..Len(Ascii)} |-> 31 + (CHOOSE i \in 1..Len(Ascii) : Ascii[i] = c)]
        @@ Latin1Codes
CharCode(c) == CharCodes[c]
FromCharCode(n) == Ascii[n - 31]

IsUpper(c) == CharCode(c) \in 65..90
IsAlnum(c) == CharCode(c) \in (48..57) \cup (65..90) \cup (97..122)

\* String.prototype.toLowerCase, on ASCII
ToLowerCase(s) ==
    [i \in 1..Len(s) |-> IF IsUpper(s[i]) THEN FromCharCode(CharCode(s[i]) + 32) ELSE s[i]]

Base64Alphabet ==
    <<
    "A", "B", "C", "D", "E", "F", "G", "H", "I", "J", "K", "L", "M",
    "N", "O", "P", "Q", "R", "S", "T", "U", "V", "W", "X", "Y", "Z",
    "a", "b", "c", "d", "e", "f", "g", "h", "i", "j", "k", "l", "m",
    "n", "o", "p", "q", "r", "s", "t", "u", "v", "w", "x", "y", "z",
    "0", "1", "2", "3", "4", "5", "6", "7", "8", "9", "+", "/"
    >>

B64(n) == Base64Alphabet[n + 1]

\* btoa: base64 of the string's character codes, three bytes to four characters,
\* padded with "=".
RECURSIVE Btoa(_)
Btoa(s) ==
    IF s = <<>> THEN <<>>
    ELSE LET b1 == CharCode(s[1])
             b2 == IF Len(s) >= 2 THEN CharCode(s[2]) ELSE 0
             b3 == IF Len(s) >= 3 THEN CharCode(s[3]) ELSE 0
             c1 == B64(b1 \div 4)
             c2 == B64((b1 % 4) * 16 + (b2 \div 16))
             c3 == B64((b2 % 16) * 4 + (b3 \div 64))
             c4 == B64(b3 % 64)
         IN  CASE Len(s) = 1 -> <<c1, c2, "=", "=">>
               [] Len(s) = 2 -> <<c1, c2, c3, "=">>
               [] OTHER -> <<c1, c2, c3, c4>> \o Btoa(SubSeq(s, 4, Len(s)))

\* .replace(/[^a-zA-Z0-9]/g, '')
StripNonAlnum(s) == SelectSeq(s, IsAlnum)

\* Faulty variant: the email not lower-cased.
generateUserId_CaseSensitive(email) == StripNonAlnum(Btoa(email))

\* generateUserId(email)
generateUserId(email) == StripNonAlnum(Btoa(ToLowerCase(email)))


(***************************************************************************)
(* Dates.                                                                  *)
(***************************************************************************)
AllDigits(s) == \A i \in 1..Len(s) : IsDigit(s[i])

\* new Date(s).getTime() for the ISO forms YYYY, YYYY-MM and YYYY-MM-DD, as a
\* day ordinal (a monotone image of the millisecond count); NaN (Invalid Date)
\* for every other string.
DateTime(s) ==
    LET y == SubSeq(s, 1, 4)
        m == SubSeq(s, 6, 7)
        d == SubSeq(s, 9, 10)
        okY == Len(s) >= 4 /\ AllDigits(y)
        okM == Len(s) >= 7 /\ s[5] = "-" /\ AllDigits(m) /\ DigitsValue(m) \in 1..12
        okD == Len(s) = 10 /\ s[8] = "-" /\ AllDigits(d) /\ DigitsValue(d) \in 1..31
    IN  CASE Len(s) = 4 /\ okY -> Fin(DigitsValue(y) * 372)
          [] Len(s) = 7 /\ okY /\ okM -> Fin(DigitsValue(y) * 372 + (DigitsValue(m) - 1) * 31)
          [] Len(s) = 10 /\ okY /\ okM /\ okD ->
                Fin(DigitsValue(y) * 372 + (DigitsValue(m) - 1) * 31 + DigitsValue(d) - 1)
          [] OTHER -> NaN

\* new Date().toISOString().split('T')[0]: every clock reading of the model
\* falls on the same day.
TodayString(now) == <<"2", "0", "2", "4", "-", "0", "2", "-", "1", "0">>

(***************************************************************************)
(* The period key utility (utils/formatters, imported by SummaryScreen and *)
(* not part of the sources at hand): written from the specification, 4.1:  *)
(* keys are YYYY-MM; previous and next give the adjacent month, rolling    *)
(* over the year.  A key is parsed into year and month and formatted back  *)
(* with its leading zeros.                                                 *)
(***************************************************************************)
\* n in at least width digits
RECURSIVE PadStart(_, _)
PadStart(digits, width) ==
    IF Len(digits) >= width THEN digits ELSE PadStart(<<"0">> \o digits, width)

ParsePeriod(key) ==
    [year |-> DigitsValue(SubSeq(key, 1, 4)), month |-> DigitsValue(SubSeq(key, 6, 7))]

PeriodKey(year, month) ==
    PadStart(NatToString(year), 4) \o <<"-">> \o PadStart(NatToString(month), 2)

\* Faulty variant: no rollover of the year.
getNextPeriod_NoRollover(key) ==
    PeriodKey(ParsePeriod(key).year, ParsePeriod(key).month + 1)

getNextPeriod(key) ==
    LET p == ParsePeriod(key)
    IN  IF p.month = 12 THEN PeriodKey(p.year + 1, 1) ELSE PeriodKey(p.year, p.month + 1)

getPreviousPeriod(key) ==
    LET p == ParsePeriod(key)
    IN  IF p.month = 1 THEN PeriodKey(p.year - 1, 12) ELSE PeriodKey(p.year, p.month - 1)

\* the key of the present month
getCurrentPeriod(now) == Substring0(TodayString(now), 7)

(***************************************************************************)
(* The data of a DataManager.  A DataManager is the record                 *)
(* this = [data, currentUser]: data is this.data, and currentUser is the   *)
(* id of the entry of data.users that this.currentUser refers to, or NULL. *)
(***************************************************************************)
NoBlob == [absent |-> TRUE]     \* localStorage.getItem answers null
NullValue == [null |-> TRUE]    \* null, where an object may stand
Unreadable == [unreadable |-> TRUE]  \* a stored text on which JSON.parse throws

DefaultVersion == <<"2", ".", "0", ".", "0">>

\* loadData's default when storage holds nothing or cannot be parsed
EmptyData == [users |-> << >>, currentUserId |-> NULL, version |-> DefaultVersion]

Outros == <<"O", "u", "t", "r", "o", "s">>

DefaultCategories ==
    << <<"A", "l", "i", "m", "e", "n", "t", "a", "ç", "ã", "o">>,
       <<"T", "r", "a", "n", "s", "p", "o", "r", "t", "e">>,
       <<"M", "o", "r", "a", "d", "i", "a">>,
       <<"S", "a", "ú", "d", "e">>,
       <<"E", "d", "u", "c", "a", "ç", "ã", "o">>,
       <<"L", "a", "z", "e", "r">>,
       <<"C", "o", "m", "p", "r", "a", "s">>,
       Outros >>

createUserStructure(userId, userData, now) ==
    [id |-> userId,
     profile |-> [name |-> userData.name, email |-> userData.email,
                  createdAt |-> now, lastLogin |-> now],
     financial |-> [monthlyIncomes |-> << >>,
                    transactions |-> << >>,
                    categories |-> DefaultCategories,
                    goals |-> << >>],
     settings |-> [currency |-> "BRL", theme |-> "light", notifications |-> TRUE]]

\* JSON.stringify writes null for NaN and for the infinities.
JsonNumber(x) == IF x.k \in {"nan", "pinf", "ninf"} THEN JsonNull ELSE x

JsonUser(u) ==
    [u EXCEPT
        !.financial.monthlyIncomes = [p \in DOMAIN @ |-> JsonNumber(@[p])],
        !.financial.transactions = [i \in DOMAIN @ |-> [@[i] EXCEPT !.amount = JsonNumber(@)]]]

\* JSON.stringify(d): the blob is kept as the tree its text denotes, so that
\* JSON.parse of it is that tree.
JsonStringify(d) == [d EXCEPT !.users = [id \in DOMAIN @ |-> JsonUser(@[id])]]
JsonParse(blob) == blob

\* Date.now().toString(36) + Math.random().toString(36).substr(2)
generateTransactionId(now, rnd) == [t |-> now, r |-> rnd]

\* The object this.currentUser refers to.
CurrentUserOf(this) == this.data.users[this.currentUser]
TransactionsOf(this) == CurrentUserOf(this).financial.transactions

(***************************************************************************)
(* Faulty variants of operators defined below.  Each property is also      *)
(* checked with one operator replaced by its variant, and has to fail.     *)
(***************************************************************************)
\* the type filter forgotten
OfType_Unfiltered(transactions, type) == transactions

\* the fixed income left out of totalIncome
TotalIncome_VariableOnly(monthlyIncome, periodIncome) == periodIncome

\* balance from the sum, not the difference
Balance_Sum(totalIncome, totalExpenses) == NumAdd(totalIncome, totalExpenses)

\* the new element appended
unshift_Append(array, x) == array \o <<x>>

\* a miss answered with the last index, as splice(-1, 1) would take it
findIndex_LastOnMiss(array, id) ==
    IF \E i \in 1..Len(array) : array[i].id = id
    THEN CHOOSE i \in 1..Len(array) :
            /\ array[i].id = id
            /\ \A j \in 1..(i - 1) : array[j].id # id
    ELSE Len(array)

\* the change taken as summary1.x - summary2.x
Change_Reversed(x1, x2) == NumSub(x1, x2)

\* the duplicate test always negative
includes_Never(array, x) == FALSE

\* splice(index) without its count: everything from the index on removed
splice_ToEnd(array, index) == SubSeq(array, 1, index - 1)

\* the new category put first
push_Prepend(array, x) == <<x>> \o array

\* the year compared, not the year and month
InPeriod_YearOnly(transaction, yearMonth) ==
    Substring0(transaction.date, 4) = Substring0(Trim(yearMonth), 4)

\* the default categories answered when nobody is logged in
getCategories_Defaults(this) ==
    IF this.currentUser = NULL THEN DefaultCategories
    ELSE CurrentUserOf(this).financial.categories

(***************************************************************************)
(* Array helpers.                                                          *)
(***************************************************************************)
\* Array.prototype.unshift
unshift(array, x) == <<x>> \o array

\* Array.prototype.push
push(array, x) == array \o <<x>>

\* Array.prototype.findIndex(t => t.id === id): the first index (from 1), or 0
\* where JavaScript answers -1
findIndex(array, id) ==
    IF \E i \in 1..Len(array) : array[i].id = id
    THEN CHOOSE i \in 1..Len(array) :
            /\ array[i].id = id
            /\ \A j \in 1..(i - 1) : array[j].id # id
    ELSE 0

\* Array.prototype.splice(index, 1)
splice(array, index) == SubSeq(array, 1, index - 1) \o SubSeq(array, index + 1, Len(array))

\* Array.prototype.includes
includes(array, x) == \E i \in 1..Len(array) : array[i] = x

(***************************************************************************)
(* Read accessors.                                                         *)
(***************************************************************************)
\* The keys every object inherits from Object.prototype that a user id, a
\* period key or a category can spell: users[userId], monthlyIncomes[yearMonth]
\* and expensesByCategory[category] answer a function for them.
ObjectPrototype ==
    {<<"c", "o", "n", "s", "t", "r", "u", "c", "t", "o", "r">>,
     <<"h", "a", "s", "O", "w", "n", "P", "r", "o", "p", "e", "r", "t", "y">>,
     <<"i", "s", "P", "r", "o", "t", "o", "t", "y", "p", "e", "O", "f">>,
     <<"p", "r", "o", "p", "e", "r", "t", "y", "I", "s", "E", "n", "u", "m", "e", "r", "a", "b", "l", "e">>,
     <<"t", "o", "L", "o", "c", "a", "l", "e", "S", "t", "r", "i", "n", "g">>,
     <<"t", "o", "S", "t", "r", "i", "n", "g">>,
     <<"v", "a", "l", "u", "e", "O", "f">>}

getCurrentUser(this) ==
    IF this.currentUser = NULL THEN NullValue ELSE CurrentUserOf(this)

isLoggedIn(this) == this.currentUser # NULL

getCategories(this) ==
    IF this.currentUser = NULL THEN << >> ELSE CurrentUserOf(this).financial.categories

getMonthlyIncome(this, yearMonth) ==
    IF this.currentUser = NULL THEN Fin(0)
    ELSE LET incomes == CurrentUserOf(this).financial.monthlyIncomes
         IN  IF yearMonth \in DOMAIN incomes
             THEN (IF NumTruthy(incomes[yearMonth]) THEN incomes[yearMonth] ELSE Fin(0))
             ELSE IF yearMonth \in ObjectPrototype THEN InheritedFunction
             ELSE Fin(0)

\* transaction.date.substring(0, 7) === yearMonth.trim()
InPeriod(transaction, yearMonth) == Substring0(transaction.date, 7) = Trim(yearMonth)

getTransactionsByPeriod(this, yearMonth) ==
    IF this.currentUser = NULL THEN << >>
    ELSE SelectSeq(TransactionsOf(this), LAMBDA t : InPeriod(t, yearMonth))

\* .filter(t => t.type === type)
OfType(transactions, type) == SelectSeq(transactions, LAMBDA t : t.type = type)

\* .reduce((sum, t) => sum + t.amount, 0)
RECURSIVE SumAmounts(_)
SumAmounts(transactions) ==
    IF transactions = << >> THEN Fin(0)
    ELSE NumAdd(SumAmounts(SubSeq(transactions, 1, Len(transactions) - 1)),
                transactions[Len(transactions)].amount)

\* forEach(t => expensesByCategory[t.category] =
\*                  (expensesByCategory[t.category] || 0) + t.amount)
RECURSIVE FoldByCategory(_)
FoldByCategory(transactions) ==
    IF transactions = << >> THEN << >>
    ELSE LET acc == FoldByCategory(SubSeq(transactions, 1, Len(transactions) - 1))
             t == transactions[Len(transactions)]
             sofar == IF t.category \in DOMAIN acc
                      THEN (IF NumTruthy(acc[t.category]) THEN acc[t.category] ELSE Fin(0))
                      ELSE IF t.category \in ObjectPrototype THEN InheritedFunction
                      ELSE Fin(0)
         IN  (t.category :> NumAdd(sofar, t.amount)) @@ acc

\* The comparator (a, b) => new Date(b.date).getTime() - new Date(a.date).getTime()
\* asks for a before b when it is negative and for b before a when it is
\* positive; a NaN result counts as 0.
CompareByDateDesc(a, b) == NumSub(DateTime(b.date), DateTime(a.date))

\* Array.prototype.sort on a short array: a stable insertion sort.
RECURSIVE InsertSorted(_, _)
InsertSorted(sorted, x) ==
    IF sorted # << >> /\ NumGt(CompareByDateDesc(sorted[Len(sorted)], x), Fin(0))
    THEN InsertSorted(SubSeq(sorted, 1, Len(sorted) - 1), x) \o <<sorted[Len(sorted)]>>
    ELSE sorted \o <<x>>

RECURSIVE SortByDateDesc(_)
SortByDateDesc(transactions) ==
    IF transactions = << >> THEN << >>
    ELSE InsertSorted(SortByDateDesc(SubSeq(transactions, 1, Len(transactions) - 1)),
                      transactions[Len(transactions)])

\* const balance = totalIncome - totalExpenses
Balance(totalIncome, totalExpenses) == NumSub(totalIncome, totalExpenses)

\* const totalIncome = monthlyIncome + periodIncome
TotalIncome(monthlyIncome, periodIncome) == NumAdd(monthlyIncome, periodIncome)

getFinancialSummary(this, yearMonth) ==
    IF this.currentUser = NULL THEN NullValue
    ELSE LET transactions == getTransactionsByPeriod(this, yearMonth)
             monthlyIncome == getMonthlyIncome(this, yearMonth)
             periodIncome == SumAmounts(OfType(transactions, "income"))
             totalIncome == TotalIncome(monthlyIncome, periodIncome)
             totalExpenses == SumAmounts(OfType(transactions, "expense"))
             balance == Balance(totalIncome, totalExpenses)
         IN  [period |-> yearMonth,
              monthlyIncome |-> monthlyIncome,
              totalIncome |-> totalIncome,
              totalExpenses |-> totalExpenses,
              balance |-> balance,
              transactionCount |-> Len(transactions),
              expensesByCategory |-> FoldByCategory(OfType(transactions, "expense")),
              transactions |-> SortByDateDesc(transactions)]

(***************************************************************************)
(* src/src/core/DataManager.js, where it differs from DataManager.ts.      *)
(***************************************************************************)
\* transaction.date.startsWith(yearMonth)
getTransactionsByPeriod_js(this, yearMonth) ==
    IF this.currentUser = NULL THEN << >>
    ELSE SelectSeq(TransactionsOf(this), LAMBDA t : StartsWith(t.date, yearMonth))

\* the summary's transactions are the filtered list as it is: no sort
getFinancialSummary_js(this, yearMonth) ==
    IF this.currentUser = NULL THEN NullValue
    ELSE LET transactions == getTransactionsByPeriod_js(this, yearMonth)
             monthlyIncome == getMonthlyIncome(this, yearMonth)
             totalIncome == NumAdd(SumAmounts(OfType(transactions, "income")), monthlyIncome)
             totalExpenses == SumAmounts(OfType(transactions, "expense"))
         IN  [period |-> yearMonth,
              monthlyIncome |-> monthlyIncome,
              totalIncome |-> totalIncome,
              totalExpenses |-> totalExpenses,
              balance |-> NumSub(totalIncome, totalExpenses),
              transactionCount |-> Len(transactions),
              expensesByCategory |-> FoldByCategory(OfType(transactions, "expense")),
              transactions |-> transactions]

\* A percentage is a quotient: [k, n, d] stands for n / d when k = "fin".
PctZero == [k |-> "fin", n |-> 0, d |-> 1]
PctNaN == [k |-> "nan", n |-> 0, d |-> 1]
PctPosInf == [k |-> "pinf", n |-> 0, d |-> 1]
PctNegInf == [k |-> "ninf", n |-> 0, d |-> 1]

\* base > 0 ? ((other - base) / base) * 100 : 0
ChangePercent(base, other) ==
    IF NumGt(base, Fin(0))
    THEN LET diff == NumSub(other, base)
         IN  CASE diff.k = "nan" -> PctNaN
               [] base.k = "pinf" -> PctNaN
               [] diff.k = "pinf" -> PctPosInf
               [] diff.k = "ninf" -> PctNegInf
               [] OTHER -> [k |-> "fin", n |-> 100 * diff.v, d |-> base.v]
    ELSE PctZero

\* summary2.x - summary1.x
Change(x1, x2) == NumSub(x2, x1)

\* Faulty variant: a percentage for the balance as well.
comparePeriods_WithBalancePercent(this, period1, period2) ==
    LET summary1 == getFinancialSummary(this, period1)
        summary2 == getFinancialSummary(this, period2)
    IN  IF summary1 = NullValue \/ summary2 = NullValue THEN NullValue
        ELSE [period1 |-> summary1,
              period2 |-> summary2,
              comparison |->
                [incomeChange |-> Change(summary1.totalIncome, summary2.totalIncome),
                 expenseChange |-> Change(summary1.totalExpenses, summary2.totalExpenses),
                 balanceChange |-> Change(summary1.balance, summary2.balance),
                 incomeChangePercent |->
                    ChangePercent(summary1.totalIncome, summary2.totalIncome),
                 expenseChangePercent |->
                    ChangePercent(summary1.totalExpenses, summary2.totalExpenses),
                 balanceChangePercent |->
                    ChangePercent(summary1.balance, summary2.balance)]]

comparePeriods(this, period1, period2) ==
    LET summary1 == getFinancialSummary(this, period1)
        summary2 == getFinancialSummary(this, period2)
    IN  IF summary1 = NullValue \/ summary2 = NullValue THEN NullValue
        ELSE [period1 |-> summary1,
              period2 |-> summary2,
              comparison |->
                [incomeChange |-> Change(summary1.totalIncome, summary2.totalIncome),
                 expenseChange |-> Change(summary1.totalExpenses, summary2.totalExpenses),
                 balanceChange |-> Change(summary1.balance, summary2.balance),
                 incomeChangePercent |->
                    ChangePercent(summary1.totalIncome, summary2.totalIncome),
                 expenseChangePercent |->
                    ChangePercent(summary1.totalExpenses, summary2.totalExpenses)]]

(***************************************************************************)
(* Mutators.  Each is a function of the DataManager, the stored blob, its  *)
(* arguments, the clock reading and whether localStorage.setItem succeeds  *)
(* (ok); it yields [this, storage, ret, wrote]: the DataManager and the    *)
(* blob as the call leaves them, what it returns, and whether it called    *)
(* setItem.                                                                *)
(***************************************************************************)
\* Faulty variant: the early return writes the blob all the same.
Unchanged_Saves(this, blob, ret) ==
    [this |-> this, storage |-> JsonStringify(this.data), ret |-> ret, wrote |-> TRUE]

\* A call that returns (or throws) before it has changed anything.
Unchanged(this, blob, ret) ==
    [this |-> this, storage |-> blob, ret |-> ret, wrote |-> FALSE]

(***************************************************************************)
(* The read accessors as calls: the DataManager as the call leaves it.     *)
(* None of them assigns to a field.  getTransactionsByPeriod returns the   *)
(* array filter() builds, and it is that array the sort of                 *)
(* getFinancialSummary reorders in place.                                  *)
(***************************************************************************)
\* Faulty variant: the read of an absent period creates its entry.
AfterGetMonthlyIncome_CreatesEntry(this, yearMonth) ==
    IF this.currentUser = NULL THEN this
    ELSE [this EXCEPT !.data.users[this.currentUser].financial.monthlyIncomes =
                          IF yearMonth \in DOMAIN @ THEN @ ELSE (yearMonth :> Fin(0)) @@ @]

\* Faulty variant: the sort applied to the account's own array.
AfterSort_InStore(this) ==
    IF this.currentUser = NULL THEN this
    ELSE [this EXCEPT !.data.users[this.currentUser].financial.transactions =
                          SortByDateDesc(@)]

AfterGetMonthlyIncome(this, yearMonth) == this

AfterGetTransactionsByPeriod(this, yearMonth) == this

\* transactions.sort(...): transactions is the array getTransactionsByPeriod returned
AfterSort(this) == this

AfterGetFinancialSummary(this, yearMonth) ==
    IF this.currentUser = NULL THEN this
    ELSE AfterSort(AfterGetMonthlyIncome(AfterGetTransactionsByPeriod(this, yearMonth),
                                         yearMonth))

AfterComparePeriods(this, period1, period2) ==
    AfterGetFinancialSummary(AfterGetFinancialSummary(this, period1), period2)

\* Every read accessor called with every period key: [op, r], r the
\* DataManager and the blob as the call leaves them (no read calls setItem).
ReadOutcomesOf(this, blob, keys) ==
    LET Left(after) == [this |-> after, storage |-> blob, wrote |-> FALSE]
    IN  {[op |-> "getCurrentUser", r |-> Left(this)],
         [op |-> "isLoggedIn", r |-> Left(this)],
         [op |-> "getCategories", r |-> Left(this)]}
        \cup {[op |-> "getMonthlyIncome", r |-> Left(AfterGetMonthlyIncome(this, p))] :
            p \in keys}
        \cup {[op |-> "getTransactionsByPeriod",
               r |-> Left(AfterGetTransactionsByPeriod(this, p))] : p \in keys}
        \cup {[op |-> "getFinancialSummary", r |-> Left(AfterGetFinancialSummary(this, p))] :
            p \in keys}
        \cup {[op |-> "comparePeriods", r |-> Left(AfterComparePeriods(this, x[1], x[2]))] :
            x \in keys \X keys}

\* Faulty variant: the blob written without the session (a partial write).
saveData_OmitsSession(this, blob, ok) ==
    IF ok THEN JsonStringify([this.data EXCEPT !.currentUserId = NULL]) ELSE blob

\* Faulty variant: every write stamped with the current schema version.
saveData_StampsVersion(this, blob, ok) ==
    IF ok THEN JsonStringify([this.data EXCEPT !.version = DefaultVersion]) ELSE blob

\* saveData() at the end of a call that has left the DataManager as `this`:
\* setItem(JSON.stringify(this.data)) replaces the blob, or throws and leaves it.
saveData(this, blob, ok) == IF ok THEN JsonStringify(this.data) ELSE blob

Saved(this, blob, ok, ret) ==
    [this |-> this, storage |-> saveData(this, blob, ok), ret |-> ret, wrote |-> TRUE]

\* Faulty variant: the account taken back when the write fails.
registerUser_RollsBack(this, blob, userData, now, ok) ==
    IF userData.email = UNDEF THEN Unchanged(this, blob, "throws")
    ELSE LET userId == generateUserId(userData.email)
         IN  IF userId \in DOMAIN this.data.users \/ userId \in ObjectPrototype
             THEN Unchanged(this, blob, "failure: Usuario ja existe")
             ELSE IF ~ok
             THEN [this |-> this, storage |-> blob,
                   ret |-> "failure: Erro ao salvar dados", wrote |-> TRUE]
             ELSE Saved([data |-> [this.data EXCEPT
                                     !.users = (userId :> createUserStructure(userId, userData, now)) @@ @,
                                     !.currentUserId = userId],
                         currentUser |-> userId],
                        blob, ok, "success")


registerUser(this, blob, userData, now, ok) ==
    IF userData.email = UNDEF THEN Unchanged(this, blob, "throws")
    ELSE LET userId == generateUserId(userData.email)
         IN  IF userId \in DOMAIN this.data.users \/ userId \in ObjectPrototype
             THEN Unchanged(this, blob, "failure: Usuario ja existe")
             ELSE Saved([data |-> [this.data EXCEPT
                                     !.users = (userId :> createUserStructure(userId, userData, now)) @@ @,
                                     !.currentUserId = userId],
                         currentUser |-> userId],
                        blob, ok,
                        IF ok THEN "success" ELSE "failure: Erro ao salvar dados")

loginUser(this, blob, email, now, ok) ==
    IF email = UNDEF THEN Unchanged(this, blob, "throws")
    ELSE LET userId == generateUserId(email)
         IN  IF userId \notin DOMAIN this.data.users
             THEN IF userId \in ObjectPrototype
                  \* user is an inherited function: user.profile is undefined
                  THEN Unchanged(this, blob, "throws")
                  ELSE Unchanged(this, blob, "failure: Usuario nao encontrado")
             ELSE Saved([data |-> [this.data EXCEPT
                                     !.users[userId].profile.lastLogin = now,
                                     !.currentUserId = userId],
                         currentUser |-> userId],
                        blob, ok, "success")

\* Faulty variant: the account removed with its session.
logout_DropsAccount(this, blob, ok) ==
    Saved([data |-> [this.data EXCEPT
                        !.users = [u \in DOMAIN @ \ {this.currentUser} |-> @[u]],
                        !.currentUserId = NULL],
           currentUser |-> NULL],
          blob, ok, "void")

\* Faulty variant: the session id left in the data.
logout_KeepsSessionId(this, blob, ok) ==
    Saved([data |-> this.data, currentUser |-> NULL], blob, ok, "void")

logout(this, blob, ok) ==
    Saved([data |-> [this.data EXCEPT !.currentUserId = NULL], currentUser |-> NULL],
          blob, ok, "void")

\* parseFloat(amount.toString()) || 0
NormalizeIncome(amount) ==
    LET parsed == ParseFloat(NumToString(amount))
    IN  IF NumTruthy(parsed) THEN parsed ELSE Fin(0)

\* Faulty variant: the income set in every account.
setMonthlyIncome_EveryAccount(this, blob, yearMonth, amount, ok) ==
    IF this.currentUser = NULL THEN Unchanged(this, blob, "false")
    ELSE IF amount = NoNumber THEN Unchanged(this, blob, "throws")
    ELSE Saved([this EXCEPT
                    !.data.users = [u \in DOMAIN @ |->
                        [@[u] EXCEPT !.financial.monthlyIncomes =
                            (yearMonth :> NormalizeIncome(amount)) @@ @]]],
               blob, ok, IF ok THEN "true" ELSE "false")

\* Faulty variant: the map replaced by the one entry set.
setMonthlyIncome_ReplacesMap(this, blob, yearMonth, amount, ok) ==
    IF this.currentUser = NULL THEN Unchanged(this, blob, "false")
    ELSE IF amount = NoNumber THEN Unchanged(this, blob, "throws")
    ELSE Saved([this EXCEPT
                    !.data.users[this.currentUser].financial.monthlyIncomes =
                        (yearMonth :> NormalizeIncome(amount))],
               blob, ok, IF ok THEN "true" ELSE "false")

setMonthlyIncome(this, blob, yearMonth, amount, ok) ==
    IF this.currentUser = NULL THEN Unchanged(this, blob, "false")
    ELSE IF amount = NoNumber THEN Unchanged(this, blob, "throws")
    ELSE Saved([this EXCEPT
                    !.data.users[this.currentUser].financial.monthlyIncomes =
                        (yearMonth :> NormalizeIncome(amount)) @@ @],
               blob, ok, IF ok THEN "true" ELSE "false")

\* The record addTransaction builds from its argument.
NewTransaction(transactionData, now, rnd) ==
    [id |-> generateTransactionId(now, rnd),
     description |-> transactionData.description,
     amount |-> ParseFloat(transactionData.amount),
     type |-> transactionData.type,
     category |-> IF StrTruthy(transactionData.category)
                  THEN transactionData.category ELSE Outros,
     date |-> IF StrTruthy(transactionData.date)
              THEN transactionData.date ELSE TodayString(now),
     createdAt |-> now]

\* Faulty variant: the transaction taken back when the write fails.
addTransaction_RollsBack(this, blob, transactionData, now, rnd, ok) ==
    IF this.currentUser = NULL THEN Unchanged(this, blob, "false")
    ELSE IF ok
         THEN Saved([this EXCEPT
                         !.data.users[this.currentUser].financial.transactions =
                             unshift(@, NewTransaction(transactionData, now, rnd))],
                    blob, ok, "transaction")
         ELSE [this |-> this, storage |-> blob, ret |-> "false", wrote |-> TRUE]

\* Faulty variant: the blob read again before the change, so that what
\* another DataManager wrote is kept.
addTransaction_ReadsBlob(this, blob, transactionData, now, rnd, ok) ==
    IF this.currentUser = NULL THEN Unchanged(this, blob, "false")
    ELSE LET fresh == IF blob # NoBlob /\ this.currentUser \in DOMAIN JsonParse(blob).users
                      THEN [this EXCEPT !.data = JsonParse(blob)]
                      ELSE this
         IN  Saved([fresh EXCEPT
                        !.data.users[this.currentUser].financial.transactions =
                            unshift(@, NewTransaction(transactionData, now, rnd))],
                   blob, ok, IF ok THEN "transaction" ELSE "false")

\* addTransaction returns the record it stored ("transaction": the first of the
\* sequence) or false.
addTransaction(this, blob, transactionData, now, rnd, ok) ==
    IF this.currentUser = NULL THEN Unchanged(this, blob, "false")
    ELSE Saved([this EXCEPT
                    !.data.users[this.currentUser].financial.transactions =
                        unshift(@, NewTransaction(transactionData, now, rnd))],
               blob, ok, IF ok THEN "transaction" ELSE "false")

\* Faulty variant: the result of saveData ignored, as loginUser does.
removeTransaction_IgnoresSave(this, blob, transactionId, ok) ==
    IF this.currentUser = NULL THEN Unchanged(this, blob, "false")
    ELSE LET index == findIndex(TransactionsOf(this), transactionId)
         IN  IF index = 0 THEN Unchanged(this, blob, "false")
             ELSE Saved([this EXCEPT
                            !.data.users[this.currentUser].financial.transactions =
                                splice(@, index)],
                        blob, ok, "true")

removeTransaction(this, blob, transactionId, ok) ==
    IF this.currentUser = NULL THEN Unchanged(this, blob, "false")
    ELSE LET index == findIndex(TransactionsOf(this), transactionId)
         IN  IF index = 0 THEN Unchanged(this, blob, "false")
             ELSE Saved([this EXCEPT
                            !.data.users[this.currentUser].financial.transactions =
                                splice(@, index)],
                        blob, ok, IF ok THEN "true" ELSE "false")

addCategory(this, blob, categoryName, ok) ==
    IF this.currentUser = NULL THEN Unchanged(this, blob, "false")
    ELSE IF categoryName = UNDEF THEN Unchanged(this, blob, "throws")
    ELSE IF Trim(categoryName) = << >> THEN Unchanged(this, blob, "false")
    ELSE IF includes(getCategories(this), categoryName) THEN Unchanged(this, blob, "false")
    ELSE Saved([this EXCEPT
                    !.data.users[this.currentUser].financial.categories =
                        push(@, categoryName)],
               blob, ok, IF ok THEN "true" ELSE "false")

\* loadData(): getItem and JSON.parse, or the default when nothing is stored
loadData(blob) == IF blob \in {NoBlob, Unreadable} THEN EmptyData ELSE JsonParse(blob)

\* new DataManager(): the constructor over the stored blob
Construct(blob) ==
    LET loaded == loadData(blob)
    IN  [data |-> loaded,
         currentUser |->
            IF StrTruthy(loaded.currentUserId) /\ loaded.currentUserId \in DOMAIN loaded.users
            THEN loaded.currentUserId
            ELSE NULL]

(***************************************************************************)
(* The state: one DataManager, the localStorage it writes to, the clock.   *)
(***************************************************************************)
VARIABLES
    data,           \* this.data: [users, currentUserId, version]
    currentUser,    \* this.currentUser, as the id of the data.users entry it refers to
    storage,        \* localStorage[STORAGE_KEY]: NoBlob or the serialized data
    clock,          \* the host's clock, Date.now()
    writeFailures,  \* how many localStorage.setItem calls have thrown
    scenario,       \* how far the run has followed EndToEndScenario; -1 once off it
    currentPeriod   \* SummaryScreen's currentPeriod, the period key on display

vars == <<data, currentUser, storage, clock, writeFailures, scenario, currentPeriod>>

This == [data |-> data, currentUser |-> currentUser]

(***************************************************************************)
(* The inputs the callers draw from.                                       *)
(***************************************************************************)
Email_ab == <<"a", "@", "b", ".", "c", "o", "m">>
Email_AB == <<"A", "@", "B", ".", "c", "o", "m">>
Name_Ana == <<"A", "n", "a">>

Period_2024_01 == <<"2", "0", "2", "4", "-", "0", "1">>
Period_2024_02 == <<"2", "0", "2", "4", "-", "0", "2">>
Period_2023_12 == <<"2", "0", "2", "3", "-", "1", "2">>
Periods == {Period_2024_01, Period_2024_02}
\* the period keys the read accessors are asked about
PeriodKeys == Periods \cup {Period_2023_12}

Food == <<"F", "o", "o", "d">>
Fuel == <<"F", "u", "e", "l">>

Groceries ==
    [description |-> <<"G", "r", "o", "c", "e", "r", "i", "e", "s">>, amount |-> <<"2", "0", "0">>,
     type |-> "expense", category |-> Food, date |-> <<"2", "0", "2", "4", "-", "0", "1", "-", "1", "5">>]
Freelance ==
    [description |-> <<"F", "r", "e", "e", "l", "a", "n", "c", "e">>, amount |-> <<"3", "0", "0">>,
     type |-> "income", category |-> UNDEF, date |-> <<"2", "0", "2", "4", "-", "0", "1", "-", "2", "0">>]
\* no amount: it parses to NaN
NoAmount ==
    [description |-> <<"M", "i", "s", "c">>, amount |-> UNDEF,
     type |-> "expense", category |-> Food, date |-> <<"2", "0", "2", "4", "-", "0", "1", "-", "1", "5">>]
\* no description and no date: the date becomes today
NoDescription ==
    [description |-> UNDEF, amount |-> <<"2", "0">>,
     type |-> "expense", category |-> Fuel, date |-> UNDEF]

\* a date shorter than a period key
ShortDate ==
    [description |-> <<"O", "l", "d">>, amount |-> <<"1", "0">>,
     type |-> "expense", category |-> Fuel, date |-> <<"2", "0", "2", "4">>]

\* registerUser is called with RegisterEmails, loginUser with LoginEmails
RegisterEmails == {Email_ab, UNDEF}
LoginEmails == {Email_ab, Email_AB, UNDEF}
TransactionInputs == {Groceries, Freelance, NoAmount, NoDescription, ShortDate}
IncomeInputs == {Fin(5000), Fin(-5), NaN, NoNumber}
CategoryInputs == {Food, Outros, <<" ", " ">>, UNDEF}
RandomValues == {"r"}
NonexistentId == [t |-> -1, r |-> "nonexistent"]
TransactionIdInputs ==
    {generateTransactionId(t, r) : t \in 0..MaxClock, r \in RandomValues} \cup {NonexistentId}

(***************************************************************************)
(* The end-to-end scenario of the specification, as a sequence of calls.   *)
(***************************************************************************)
EndToEndScenario ==
    << [op |-> "registerUser", arg |-> [name |-> Name_Ana, email |-> Email_ab]],
       [op |-> "setMonthlyIncome", arg |-> [yearMonth |-> Period_2024_01, amount |-> Fin(5000)]],
       [op |-> "addTransaction", arg |-> Groceries],
       [op |-> "addTransaction", arg |-> Freelance] >>

\* The scenario counter after the call op(arg).
Follow(op, arg) ==
    IF /\ scenario >= 0
       /\ scenario < Len(EndToEndScenario)
       /\ EndToEndScenario[scenario + 1].op = op
       /\ EndToEndScenario[scenario + 1].arg = arg
    THEN scenario + 1
    ELSE -1

(***************************************************************************)
(* Bounds on the runs.                                                     *)
(***************************************************************************)
\* The outcomes of localStorage.setItem that a step may draw.
WriteOutcomes == {TRUE} \cup (IF writeFailures < MaxWriteFailures THEN {FALSE} ELSE {})

RECURSIVE EntriesOf(_, _)
EntriesOf(d, ids) ==
    IF ids = {} THEN 0
    ELSE LET id == CHOOSE x \in ids : TRUE
             f == d.users[id].financial
         IN  Len(f.transactions) + Cardinality(DOMAIN f.monthlyIncomes)
                + (Len(f.categories) - Len(DefaultCategories))
                + EntriesOf(d, ids \ {id})

TotalEntries(d) == EntriesOf(d, DOMAIN d.users)

(***************************************************************************)
(* Init: a DataManager constructed over an empty localStorage.             *)
(***************************************************************************)
Init ==
    /\ storage = NoBlob
    /\ data = Construct(NoBlob).data
    /\ currentUser = Construct(NoBlob).currentUser
    /\ clock = 0
    /\ writeFailures = 0
    /\ scenario = 0
    /\ currentPeriod = getCurrentPeriod(clock)

(***************************************************************************)
(* The steps.                                                              *)
(***************************************************************************)
\* The call op(arg) has the outcome r.
Call(op, arg, r, ok) ==
    /\ TotalEntries(r.this.data) <= MaxEntries
    /\ data' = r.this.data
    /\ currentUser' = r.this.currentUser
    /\ storage' = r.storage
    /\ writeFailures' = IF r.wrote /\ ~ok THEN writeFailures + 1 ELSE writeFailures
    /\ scenario' = Follow(op, arg)
    /\ UNCHANGED <<clock, currentPeriod>>

\* The host's clock advances.
Tick ==
    /\ clock < MaxClock
    /\ clock' = clock + 1
    /\ UNCHANGED <<data, currentUser, storage, writeFailures, scenario, currentPeriod>>

\* The page is loaded again: a new DataManager is constructed over the blob.
Reload ==
    /\ data' = Construct(storage).data
    /\ currentUser' = Construct(storage).currentUser
    /\ scenario' = -1
    /\ UNCHANGED <<storage, clock, writeFailures, currentPeriod>>

RegisterUser(emails) ==
    \E email \in emails, ok \in WriteOutcomes :
        LET userData == [name |-> Name_Ana, email |-> email]
        IN  Call("registerUser", userData, registerUser(This, storage, userData, clock, ok), ok)

LoginUser(emails) ==
    \E email \in emails, ok \in WriteOutcomes :
        Call("loginUser", email, loginUser(This, storage, email, clock, ok), ok)

Logout ==
    \E ok \in WriteOutcomes :
        Call("logout", << >>, logout(This, storage, ok), ok)

SetMonthlyIncome ==
    \E yearMonth \in Periods, amount \in IncomeInputs, ok \in WriteOutcomes :
        Call("setMonthlyIncome", [yearMonth |-> yearMonth, amount |-> amount],
             setMonthlyIncome(This, storage, yearMonth, amount, ok), ok)

AddTransaction ==
    \E transactionData \in TransactionInputs, rnd \in RandomValues, ok \in WriteOutcomes :
        Call("addTransaction", transactionData,
             addTransaction(This, storage, transactionData, clock, rnd, ok), ok)

RemoveTransaction ==
    \E transactionId \in TransactionIdInputs, ok \in WriteOutcomes :
        Call("removeTransaction", transactionId,
             removeTransaction(This, storage, transactionId, ok), ok)

AddCategory ==
    \E categoryName \in CategoryInputs, ok \in WriteOutcomes :
        Call("addCategory", categoryName, addCategory(This, storage, categoryName, ok), ok)

Next ==
    \/ Tick
    \/ Reload
    \/ RegisterUser(RegisterEmails)
    \/ LoginUser(LoginEmails)
    \/ Logout
    \/ SetMonthlyIncome
    \/ AddTransaction
    \/ RemoveTransaction
    \/ AddCategory

Spec == Init /\ [][Next]_vars

(***************************************************************************)
(* Definitions the properties share.                                       *)
(***************************************************************************)
LoggedIn == currentUser # NULL
Transactions == IF LoggedIn THEN TransactionsOf(This) ELSE << >>
Summary(p) == getFinancialSummary(This, p)

\* The indices of the active account's transactions dated in period p.
DatedIn(p) ==
    {i \in 1..Len(Transactions) :
        /\ Len(Transactions[i].date) >= 7
        /\ SubSeq(Transactions[i].date, 1, 7) = p}

\* The sum of the amounts at the indices I, taken in any order.
RECURSIVE SumAt(_)
SumAt(I) ==
    IF I = {} THEN Fin(0)
    ELSE LET i == CHOOSE x \in I : TRUE
         IN  NumAdd(ToNumber(Transactions[i].amount), SumAt(I \ {i}))

\* The fixed income stored for p, 0 when none is.
StoredIncome(p) ==
    LET incomes == CurrentUserOf(This).financial.monthlyIncomes
    IN  IF p \in DOMAIN incomes THEN ToNumber(incomes[p]) ELSE Fin(0)

(***************************************************************************)
(* C1.  End-to-end scenario: from empty storage, registerUser(a@b.com),    *)
(* setMonthlyIncome("2024-01", 5000), addTransaction(Groceries, "200",     *)
(* expense, Food, 2024-01-15), addTransaction(Freelance, "300", income,    *)
(* 2024-01-20); then getFinancialSummary("2024-01") has monthlyIncome 5000,*)
(* totalIncome 5300, totalExpenses 200, balance 5100, transactionCount 2   *)
(* and expensesByCategory {Food: 200}.                                     *)
(***************************************************************************)
C1_EndToEnd ==
    scenario = Len(EndToEndScenario) =>
        LET s == Summary(Period_2024_01)
        IN  /\ s.monthlyIncome = Fin(5000)
            /\ s.totalIncome = Fin(5300)
            /\ s.totalExpenses = Fin(200)
            /\ s.balance = Fin(5100)
            /\ s.transactionCount = 2
            /\ s.expensesByCategory = (Food :> Fin(200))

C1_Witness == scenario = Len(EndToEndScenario) /\ Len(Transactions) = 2

(***************************************************************************)
(* C2.  With an active account, for every period key p the summary has     *)
(* monthlyIncome = the fixed income stored for p (0 if none), totalIncome  *)
(* = that income plus the sum of the amounts of the account's income       *)
(* transactions dated in p, totalExpenses = the sum of the amounts of its  *)
(* expense transactions dated in p, and transactionCount = the number of   *)
(* its transactions dated in p.                                            *)
(***************************************************************************)
C2_SummaryTotals ==
    LoggedIn =>
        \A p \in PeriodKeys :
            LET s == Summary(p)
                incomeAt == {i \in DatedIn(p) : Transactions[i].type = "income"}
                expenseAt == {i \in DatedIn(p) : Transactions[i].type = "expense"}
            IN  /\ s.monthlyIncome = StoredIncome(p)
                /\ s.totalIncome = NumAdd(StoredIncome(p), SumAt(incomeAt))
                /\ s.totalExpenses = SumAt(expenseAt)
                /\ s.transactionCount = Cardinality(DatedIn(p))

C2_Witness ==
    /\ LoggedIn
    /\ Summary(Period_2024_01).monthlyIncome = Fin(5000)
    /\ Summary(Period_2024_01).totalIncome = Fin(5300)
    /\ Summary(Period_2024_02).totalExpenses = Fin(20)

(***************************************************************************)
(* C3.  Summary additivity: for every period the summary satisfies         *)
(* balance = totalIncome - totalExpenses.                                  *)
(***************************************************************************)
C3_BalanceAdditive ==
    LoggedIn =>
        \A p \in PeriodKeys :
            Summary(p).balance = NumSub(Summary(p).totalIncome, Summary(p).totalExpenses)

C3_Witness ==
    /\ LoggedIn
    /\ Summary(Period_2024_01).totalIncome = Fin(300)
    /\ Summary(Period_2024_01).totalExpenses = Fin(400)
    /\ Summary(Period_2024_01).balance = Fin(-100)

(***************************************************************************)
(* C4.  Category fold: for every period, expensesByCategory maps each      *)
(* category named by an expense transaction of the period to the sum of    *)
(* the amounts of the period's expense transactions of that category, and  *)
(* has no other key (Food 10, Food 5, Fuel 20 give {Food: 15, Fuel: 20}).  *)
(* The code does not keep this: a NaN amount that addTransaction stored is *)
(* dropped by the fold's "|| 0" when a later record has the same category. *)
(***************************************************************************)
ExpensesAt(p) == {i \in DatedIn(p) : Transactions[i].type = "expense"}

C4_CategoryFold ==
    LoggedIn =>
        \A p \in PeriodKeys :
            LET byCategory == Summary(p).expensesByCategory
            IN  /\ DOMAIN byCategory = {Transactions[i].category : i \in ExpensesAt(p)}
                /\ \A c \in DOMAIN byCategory :
                       byCategory[c] =
                           SumAt({i \in ExpensesAt(p) : Transactions[i].category = c})

(***************************************************************************)
(* C5.  Insertion order: addTransaction puts the new record in front of    *)
(* the account's sequence, so two additions A then B leave B before A      *)
(* before everything older; the sequence is always most-recently-added     *)
(* first (createdAt never increases along it); removeTransaction deletes   *)
(* one record and keeps the order of the others.                           *)
(***************************************************************************)
C5_InsertionOrder ==
    LoggedIn =>
        /\ \A i \in 1..Len(Transactions), j \in 1..Len(Transactions) :
               i < j => Transactions[i].createdAt >= Transactions[j].createdAt
        /\ \A A \in TransactionInputs, B \in TransactionInputs, rnd \in RandomValues :
               LET afterA == addTransaction(This, storage, A, clock, rnd, TRUE)
                   afterB == addTransaction(afterA.this, afterA.storage, B, clock, rnd, TRUE)
               IN  TransactionsOf(afterB.this) =
                       << NewTransaction(B, clock, rnd), NewTransaction(A, clock, rnd) >>
                           \o Transactions
        /\ \A id \in TransactionIdInputs :
               LET after == TransactionsOf(removeTransaction(This, storage, id, TRUE).this)
               IN  \/ after = Transactions
                   \/ \E i \in 1..Len(Transactions) :
                          /\ Transactions[i].id = id
                          /\ after = SubSeq(Transactions, 1, i - 1)
                                        \o SubSeq(Transactions, i + 1, Len(Transactions))

C5_Witness ==
    /\ LoggedIn
    /\ Len(Transactions) = 2
    /\ Transactions[1].createdAt > Transactions[2].createdAt
    /\ Transactions[1].description = Freelance.description
    /\ Transactions[2].description = Groceries.description

(***************************************************************************)
(* C6.  removeTransaction with an id that no transaction of the active     *)
(* account has returns false and leaves the sequence (and everything else) *)
(* unchanged.                                                              *)
(***************************************************************************)
C6_RemoveNonexistent ==
    LoggedIn =>
        \A id \in TransactionIdInputs, ok \in BOOLEAN :
            (\A i \in 1..Len(Transactions) : Transactions[i].id # id) =>
                LET after == removeTransaction(This, storage, id, ok)
                IN  /\ after.ret = "false"
                    /\ TransactionsOf(after.this) = Transactions
                    /\ after.this = This
                    /\ after.storage = storage
                    /\ ~after.wrote

C6_Witness ==
    /\ LoggedIn
    /\ Len(Transactions) = 2
    /\ \A i \in 1..Len(Transactions) : Transactions[i].id # NonexistentId
    /\ removeTransaction(This, storage, NonexistentId, TRUE).ret = "false"

(***************************************************************************)
(* C7.  Zero baseline: when the first period's total is 0 the percentage   *)
(* of comparePeriods is 0, and no percentage is ever NaN or infinite.      *)
(* The code does not keep this: a NaN total in the second period gives a   *)
(* NaN percentage over a positive baseline.                                *)
(***************************************************************************)
C7_ZeroBaseline ==
    LoggedIn =>
        \A p1 \in PeriodKeys, p2 \in PeriodKeys :
            LET c == comparePeriods(This, p1, p2)
            IN  /\ c.period1.totalIncome = Fin(0) => c.comparison.incomeChangePercent = PctZero
                /\ c.period1.totalExpenses = Fin(0) => c.comparison.expenseChangePercent = PctZero
                /\ c.comparison.incomeChangePercent.k = "fin"
                /\ c.comparison.expenseChangePercent.k = "fin"

(***************************************************************************)
(* C8.  comparePeriods(A, B) is null when either summary is null, and      *)
(* otherwise carries both summaries and the changes B - A of totalIncome,  *)
(* totalExpenses and balance.                                              *)
(***************************************************************************)
C8_ComparePeriods ==
    \A A \in PeriodKeys, B \in PeriodKeys :
        LET c == comparePeriods(This, A, B)
            a == Summary(A)
            b == Summary(B)
        IN  IF a = NullValue \/ b = NullValue THEN c = NullValue
            ELSE /\ c # NullValue
                 /\ c.period1 = a
                 /\ c.period2 = b
                 /\ c.comparison.incomeChange = NumSub(b.totalIncome, a.totalIncome)
                 /\ c.comparison.expenseChange = NumSub(b.totalExpenses, a.totalExpenses)
                 /\ c.comparison.balanceChange = NumSub(b.balance, a.balance)

C8_Witness ==
    /\ LoggedIn
    /\ LET c == comparePeriods(This, Period_2024_01, Period_2024_02)
       IN  /\ c.comparison.incomeChange = Fin(-5300)
           /\ c.comparison.expenseChange = Fin(20)
           /\ c.comparison.balanceChange = Fin(-5320)

(***************************************************************************)
(* C9.  With no active account the read accessors answer their defaults:   *)
(* getMonthlyIncome 0, getCategories and getTransactionsByPeriod the empty *)
(* sequence, getCurrentUser null, isLoggedIn false, getFinancialSummary    *)
(* null and comparePeriods null.                                           *)
(***************************************************************************)
C9_NoAccountDefaults ==
    currentUser = NULL =>
        /\ getCurrentUser(This) = NullValue
        /\ ~isLoggedIn(This)
        /\ getCategories(This) = << >>
        /\ \A p \in PeriodKeys :
               /\ getMonthlyIncome(This, p) = Fin(0)
               /\ getTransactionsByPeriod(This, p) = << >>
               /\ getFinancialSummary(This, p) = NullValue
               /\ \A q \in PeriodKeys : comparePeriods(This, p, q) = NullValue

C9_Witness ==
    /\ currentUser = NULL
    /\ \E u \in DOMAIN data.users :
           /\ Len(data.users[u].financial.transactions) = 2
           /\ Period_2024_01 \in DOMAIN data.users[u].financial.monthlyIncomes

(***************************************************************************)
(* C10.  addTransaction validates its argument: with the description or    *)
(* the amount absent it returns false and stores nothing.                  *)
(* The code does not do this: addTransaction stores whatever it is given.  *)
(***************************************************************************)
C10_AddValidates ==
    LoggedIn =>
        \A transactionData \in TransactionInputs, rnd \in RandomValues, ok \in BOOLEAN :
            (transactionData.description = UNDEF \/ transactionData.amount = UNDEF) =>
                LET after == addTransaction(This, storage, transactionData, clock, rnd, ok)
                IN  /\ after.ret = "false"
                    /\ TransactionsOf(after.this) = Transactions

(***************************************************************************)
(* C11.  In every reachable state every stored transaction's amount is a   *)
(* finite non-negative number: an unparsable amount is rejected or stored  *)
(* as 0, never as NaN, and no negative amount is stored.                   *)
(* The code does not keep this: addTransaction stores parseFloat(amount)   *)
(* as it comes.                                                            *)
(***************************************************************************)
FiniteNonNegative(x) == x.k = "fin" /\ x.v >= 0

C11_AmountsFiniteNonNegative ==
    \A u \in DOMAIN data.users :
        \A i \in 1..Len(data.users[u].financial.transactions) :
            FiniteNonNegative(data.users[u].financial.transactions[i].amount)

(***************************************************************************)
(* C12.  setMonthlyIncome normalizes the amount to a finite non-negative   *)
(* number (invalid input is stored as 0): every value of an account's      *)
(* monthlyIncomes is finite and >= 0, and getMonthlyIncome afterwards      *)
(* returns the normalized value.                                           *)
(* The code does not keep this: "parseFloat(...) || 0" lets a negative     *)
(* (or infinite) amount through.                                           *)
(***************************************************************************)
C12_IncomeNormalized ==
    /\ \A u \in DOMAIN data.users :
           \A p \in DOMAIN data.users[u].financial.monthlyIncomes :
               FiniteNonNegative(data.users[u].financial.monthlyIncomes[p])
    /\ LoggedIn =>
           \A p \in Periods, amount \in IncomeInputs \ {NoNumber} :
               LET after == setMonthlyIncome(This, storage, p, amount, TRUE).this
               IN  getMonthlyIncome(after, p) =
                       (IF FiniteNonNegative(amount) THEN amount ELSE Fin(0))

(***************************************************************************)
(* C13.  When localStorage rejects the write, setMonthlyIncome,            *)
(* addTransaction, removeTransaction and addCategory return false, the     *)
(* blob stays as it was, and the DataManager is mutated all the same: the  *)
(* income is set, the transaction is first in the sequence, the            *)
(* transaction is removed, the category is appended.                       *)
(***************************************************************************)
Incomes == CurrentUserOf(This).financial.monthlyIncomes
Categories == CurrentUserOf(This).financial.categories

C13_WriteFailureKeepsMemory ==
    LoggedIn =>
        /\ \A p \in Periods, amount \in IncomeInputs \ {NoNumber} :
               LET r == setMonthlyIncome(This, storage, p, amount, FALSE)
                   incomes == CurrentUserOf(r.this).financial.monthlyIncomes
               IN  /\ r.ret = "false" /\ r.storage = storage
                   /\ p \in DOMAIN incomes
                   /\ incomes[p] = NormalizeIncome(amount)
        /\ \A transactionData \in TransactionInputs, rnd \in RandomValues :
               LET r == addTransaction(This, storage, transactionData, clock, rnd, FALSE)
               IN  /\ r.ret = "false" /\ r.storage = storage
                   /\ TransactionsOf(r.this) =
                          << NewTransaction(transactionData, clock, rnd) >> \o Transactions
        /\ \A i \in 1..Len(Transactions) :
               LET r == removeTransaction(This, storage, Transactions[i].id, FALSE)
               IN  /\ r.ret = "false" /\ r.storage = storage
                   /\ Len(TransactionsOf(r.this)) = Len(Transactions) - 1
                   /\ \E j \in 1..i :
                          /\ Transactions[j].id = Transactions[i].id
                          /\ TransactionsOf(r.this) =
                                 SubSeq(Transactions, 1, j - 1)
                                     \o SubSeq(Transactions, j + 1, Len(Transactions))
        /\ \A name \in CategoryInputs \ {UNDEF} :
               (Trim(name) # << >> /\ ~\E k \in 1..Len(Categories) : Categories[k] = name) =>
                   LET r == addCategory(This, storage, name, FALSE)
                   IN  /\ r.ret = "false" /\ r.storage = storage
                       /\ CurrentUserOf(r.this).financial.categories = Categories \o << name >>

\* a write has failed, and the DataManager holds a transaction the blob lacks
C13_Witness ==
    /\ LoggedIn
    /\ writeFailures = 1
    /\ Len(Transactions) = 1
    /\ storage # NoBlob
    /\ currentUser \in DOMAIN JsonParse(storage).users
    /\ JsonParse(storage).users[currentUser].financial.transactions = << >>

(***************************************************************************)
(* The outcomes of every mutator of the public API, called on the          *)
(* DataManager `this` over the blob with every input of the model and with *)
(* the write succeeding or failing: [op, ok, r], r the outcome [this,      *)
(* storage, ret, wrote].  Outcomes are those of the current state.         *)
(***************************************************************************)
OutcomesOf(this, blob) ==
    {[op |-> "registerUser", ok |-> ok,
      r |-> registerUser(this, blob, [name |-> Name_Ana, email |-> email], clock, ok)] :
        email \in LoginEmails, ok \in BOOLEAN}
    \cup {[op |-> "loginUser", ok |-> ok, r |-> loginUser(this, blob, email, clock, ok)] :
        email \in LoginEmails, ok \in BOOLEAN}
    \cup {[op |-> "logout", ok |-> ok, r |-> logout(this, blob, ok)] : ok \in BOOLEAN}
    \cup {[op |-> "setMonthlyIncome", ok |-> ok,
           r |-> setMonthlyIncome(this, blob, x[1], x[2], ok)] :
        x \in Periods \X IncomeInputs, ok \in BOOLEAN}
    \cup {[op |-> "addTransaction", ok |-> ok,
           r |-> addTransaction(this, blob, x[1], clock, x[2], ok)] :
        x \in TransactionInputs \X RandomValues, ok \in BOOLEAN}
    \cup {[op |-> "removeTransaction", ok |-> ok,
           r |-> removeTransaction(this, blob, transactionId, ok)] :
        transactionId \in TransactionIdInputs, ok \in BOOLEAN}
    \cup {[op |-> "addCategory", ok |-> ok, r |-> addCategory(this, blob, categoryName, ok)] :
        categoryName \in CategoryInputs, ok \in BOOLEAN}

Outcomes == OutcomesOf(This, storage)

(***************************************************************************)
(* C14.  Every mutator that touches persistence (registerUser, loginUser,  *)
(* logout, setMonthlyIncome, addTransaction, removeTransaction,            *)
(* addCategory) returns a result that tells whether the write succeeded:   *)
(* when the write fails, the result signals failure.                       *)
(* The code does not keep this: loginUser and logout ignore what saveData  *)
(* returns.                                                                *)
(***************************************************************************)
SignalsFailure(ret) ==
    ret \in {"false", "failure: Erro ao salvar dados"}

C14_ResultTellsWrite ==
    \A o \in Outcomes : (o.r.wrote /\ ~o.ok) => SignalsFailure(o.r.ret)

(***************************************************************************)
(* C15.  addCategory(name) returns false and leaves the category sequence  *)
(* unchanged for a blank or whitespace-only name and for a name equal to   *)
(* an existing category; otherwise it appends the name at the end of the   *)
(* sequence and persists.                                                  *)
(***************************************************************************)
\* names given to addCategory: new, existing, blank, empty, differing in case
CategoryNames ==
    (CategoryInputs \ {UNDEF}) \cup {<< >>, <<"f", "o", "o", "d">>, <<" ", "F", "o", "o", "d">>}

C15_AddCategory ==
    LoggedIn =>
        \A name \in CategoryNames, ok \in BOOLEAN :
            LET r == addCategory(This, storage, name, ok)
                after == CurrentUserOf(r.this).financial.categories
            IN  IF \/ \A k \in 1..Len(name) : IsSpace(name[k])
                   \/ \E k \in 1..Len(Categories) : Categories[k] = name
                THEN /\ r.ret = "false"
                     /\ after = Categories
                     /\ r.this = This
                     /\ r.storage = storage
                ELSE /\ after = Categories \o << name >>
                     /\ r.wrote
                     /\ r.ret = (IF ok THEN "true" ELSE "false")
                     /\ ok => r.storage = JsonStringify(r.this.data)

C15_Witness ==
    /\ LoggedIn
    /\ Categories = DefaultCategories \o << Food >>
    /\ storage = JsonStringify(data)
    /\ addCategory(This, storage, Food, TRUE).ret = "false"

(***************************************************************************)
(* C16.  Every account's category sequence starts as the eight defaults at *)
(* registration, never holds two equal names, and is append-only under     *)
(* every operation of the public API: the sequence before the operation is *)
(* a prefix of the sequence after it, and only addCategory extends it.     *)
(***************************************************************************)
IsPrefix(s, t) == Len(s) <= Len(t) /\ SubSeq(t, 1, Len(s)) = s

C16_CategoriesAppendOnly ==
    /\ \A u \in DOMAIN data.users :
           LET categories == data.users[u].financial.categories
           IN  /\ IsPrefix(DefaultCategories, categories)
               /\ \A i \in 1..Len(categories), j \in 1..Len(categories) :
                      categories[i] = categories[j] => i = j
    /\ \A o \in Outcomes :
           /\ \A u \in DOMAIN o.r.this.data.users \ DOMAIN data.users :
                  /\ o.op = "registerUser"
                  /\ o.r.this.data.users[u].financial.categories = DefaultCategories
                  /\ Len(DefaultCategories) = 8
           /\ \A u \in DOMAIN data.users :
                  /\ u \in DOMAIN o.r.this.data.users
                  /\ IsPrefix(data.users[u].financial.categories,
                              o.r.this.data.users[u].financial.categories)
                  /\ o.r.this.data.users[u].financial.categories
                         # data.users[u].financial.categories
                     => o.op = "addCategory"

\* an account that has been extended by a category, with nobody logged in
C16_Witness ==
    /\ currentUser = NULL
    /\ \E u \in DOMAIN data.users :
           /\ Len(data.users[u].financial.categories) = 9
           /\ data.users[u].financial.categories[9] = Food

(***************************************************************************)
(* C17.  getTransactionsByPeriod(period) returns exactly the active        *)
(* account's transactions whose date's leading 7 characters equal the      *)
(* period key, in the store's order, not sorted again; a transaction whose *)
(* date is shorter than 7 characters matches no key and causes no error.   *)
(***************************************************************************)
\* The transactions at the indices I, in the order of the store.
RECURSIVE TransactionsAt(_)
TransactionsAt(I) ==
    IF I = {} THEN << >>
    ELSE LET last == CHOOSE i \in I : \A j \in I : j <= i
         IN  TransactionsAt(I \ {last}) \o << Transactions[last] >>

SortedByDateStable(list, source) ==
    /\ Len(list) = Len(source)
    /\ \A i \in 1..Len(list), j \in 1..Len(list) :
           i < j => DateTime(list[i].date).v >= DateTime(list[j].date).v
    /\ \A k \in 1..Len(source) :
           SelectSeq(list, LAMBDA t : t.date = source[k].date)
               = SelectSeq(source, LAMBDA t : t.date = source[k].date)

C18_SortedTs ==
    LoggedIn =>
        \A p \in PeriodKeys :
            SortedByDateStable(getFinancialSummary(This, p).transactions,
                               getTransactionsByPeriod(This, p))

C18_SortedJs ==
    LoggedIn =>
        \A p \in PeriodKeys :
            SortedByDateStable(getFinancialSummary_js(This, p).transactions,
                               getTransactionsByPeriod_js(This, p))

C18_SummarySorted == C18_SortedTs /\ C18_SortedJs

(***************************************************************************)
(* C19.  Transaction ids never collide within an account: no two           *)
(* transactions of an account share an id, an id given by addTransaction   *)
(* differs from the ids given before, and so removeTransaction(id) removes *)
(* exactly the transaction created with that id.                           *)
(* The code does not keep this: the id is the clock reading followed by a  *)
(* random string, and nothing compares it with the ids in use.  SpecIds    *)
(* lets Math.random() draw either of two values at every addTransaction.   *)
(***************************************************************************)
RandomDraws == {"r", "s"}

AddTransactionDrawing ==
    \E rnd \in RandomDraws, ok \in WriteOutcomes :
        Call("addTransaction", Groceries,
             addTransaction(This, storage, Groceries, clock, rnd, ok), ok)

RemoveStoredTransaction ==
    \E i \in 1..Len(Transactions), ok \in WriteOutcomes :
        Call("removeTransaction", Transactions[i].id,
             removeTransaction(This, storage, Transactions[i].id, ok), ok)

NextIds ==
    \/ Tick
    \/ RegisterUser({Email_ab})
    \/ AddTransactionDrawing
    \/ RemoveStoredTransaction

SpecIds == Init /\ [][NextIds]_vars

C19_IdsNeverCollide ==
    \A u \in DOMAIN data.users :
        LET transactions == data.users[u].financial.transactions
        IN  \A i \in 1..Len(transactions), j \in 1..Len(transactions) :
                transactions[i].id = transactions[j].id => i = j

(***************************************************************************)
(* C20.  No operation of the core throws, whatever its input: a missing    *)
(* required field (registerUser without email, addTransaction without date *)
(* or amount, addCategory or setMonthlyIncome with an absent value) and a  *)
(* failed write end in a returned result, never in an exception.           *)
(* The code does not keep this: it calls toLowerCase, trim and toString on *)
(* the absent value.                                                       *)
(***************************************************************************)
C20_NeverThrows ==
    \A o \in Outcomes : o.r.ret # "throws"

(***************************************************************************)
(* C21.  registerUser with an email whose lower-cased form is already      *)
(* registered returns a failure with a message, does not throw, and leaves *)
(* the existing account, the set of accounts and the active account as     *)
(* they were.                                                              *)
(***************************************************************************)
Registered(email) ==
    \E u \in DOMAIN data.users :
        ToLowerCase(data.users[u].profile.email) = ToLowerCase(email)

C21_DuplicateRegistration ==
    \A email \in {Email_ab, Email_AB}, ok \in BOOLEAN :
        Registered(email) =>
            LET r == registerUser(This, storage, [name |-> Name_Ana, email |-> email], clock, ok)
            IN  /\ r.ret = "failure: Usuario ja existe"
                /\ r.this = This
                /\ r.storage = storage
                /\ ~r.wrote

\* a@b.com is registered with a transaction, nobody is logged in, and A@B.com
\* is refused
C21_Witness ==
    /\ currentUser = NULL
    /\ Registered(Email_AB)
    /\ \E u \in DOMAIN data.users : Len(data.users[u].financial.transactions) = 1
    /\ registerUser(This, storage, [name |-> Name_Ana, email |-> Email_AB], clock, TRUE).ret
           = "failure: Usuario ja existe"

(***************************************************************************)
(* C22.  The blob is rewritten in full on every mutation: after a mutating *)
(* call whose write succeeds the blob is the whole DataManager data (all   *)
(* accounts, currentUserId, version); a call that writes nothing changes   *)
(* nothing and a failed write leaves the blob, so the blob is always the   *)
(* data as of the last successful write; and no call reads the blob: only  *)
(* the constructor does.                                                   *)
(***************************************************************************)
\* what a call does to the DataManager and returns
Effect(r) == [this |-> r.this, ret |-> r.ret, wrote |-> r.wrote]

C22_BlobRewrittenInFull ==
    /\ \A o \in Outcomes :
           /\ (o.r.wrote /\ o.ok) => o.r.storage = JsonStringify(o.r.this.data)
           /\ (o.r.wrote /\ ~o.ok) => o.r.storage = storage
           /\ ~o.r.wrote => (o.r.this = This /\ o.r.storage = storage)
    /\ \A email \in LoginEmails :
           /\ Effect(registerUser(This, NoBlob, [name |-> Name_Ana, email |-> email], clock, FALSE))
                = Effect(registerUser(This, storage, [name |-> Name_Ana, email |-> email], clock, FALSE))
           /\ Effect(loginUser(This, NoBlob, email, clock, FALSE))
                = Effect(loginUser(This, storage, email, clock, FALSE))
    /\ Effect(logout(This, NoBlob, FALSE)) = Effect(logout(This, storage, FALSE))
    /\ Effect(setMonthlyIncome(This, NoBlob, Period_2024_01, Fin(5000), FALSE))
         = Effect(setMonthlyIncome(This, storage, Period_2024_01, Fin(5000), FALSE))
    /\ \A rnd \in RandomValues :
           Effect(addTransaction(This, NoBlob, Groceries, clock, rnd, FALSE))
               = Effect(addTransaction(This, storage, Groceries, clock, rnd, FALSE))
    /\ \A transactionId \in TransactionIdInputs :
           Effect(removeTransaction(This, NoBlob, transactionId, FALSE))
               = Effect(removeTransaction(This, storage, transactionId, FALSE))
    /\ Effect(addCategory(This, NoBlob, Food, FALSE)) = Effect(addCategory(This, storage, Food, FALSE))

\* a failed write, then a successful one: the blob holds everything, the
\* transaction of the failed write included
C22_Witness ==
    /\ LoggedIn
    /\ writeFailures = 1
    /\ Len(Transactions) = 2
    /\ Period_2024_01 \in DOMAIN Incomes
    /\ storage = JsonStringify(data)

(***************************************************************************)
(* C23.  Last writer wins: two DataManagers are constructed from the same  *)
(* blob, active on the same account; the first adds a transaction, then    *)
(* the second adds a different one, both writes succeeding.  The blob then *)
(* holds the second's transaction in front of what was stored before, and  *)
(* not the first's: nothing detects the lost update.                       *)
(***************************************************************************)
HasSession(blob) ==
    /\ blob # NoBlob
    /\ JsonParse(blob).currentUserId # NULL
    /\ JsonParse(blob).currentUserId \in DOMAIN JsonParse(blob).users

StoredTransactions(blob) ==
    JsonParse(blob).users[JsonParse(blob).currentUserId].financial.transactions

\* the blob after instance 1 has added A (drawing "s") and instance 2 has added B
AfterBothAdd(A, B, rnd) ==
    LET one == Construct(storage)
        two == Construct(storage)
        first == addTransaction(one, storage, A, clock, "s", TRUE)
        second == addTransaction(two, first.storage, B, clock, rnd, TRUE)
    IN  [first |-> first, second |-> second]

C23_LastWriterWins ==
    HasSession(storage) =>
        \A A \in TransactionInputs, B \in TransactionInputs, rnd \in RandomValues :
            A # B =>
                LET both == AfterBothAdd(A, B, rnd)
                    idA == generateTransactionId(clock, "s")
                    between == StoredTransactions(both.first.storage)
                    final == StoredTransactions(both.second.storage)
                IN  /\ both.first.ret = "transaction"
                    /\ both.second.ret = "transaction"
                    /\ between[1].id = idA
                    /\ Tail(between) = StoredTransactions(storage)
                    /\ final[1].id = generateTransactionId(clock, rnd)
                    /\ final[1].description = B.description
                    /\ Tail(final) = StoredTransactions(storage)
                    /\ \A i \in 1..Len(final) : final[i].id # idA

\* a blob with a session and two transactions stored, over which the update of
\* instance 1 is lost
C23_Witness ==
    /\ HasSession(storage)
    /\ Len(StoredTransactions(storage)) = 2
    /\ LET both == AfterBothAdd(Groceries, Freelance, "r")
       IN  /\ Len(StoredTransactions(both.first.storage)) = 3
           /\ StoredTransactions(both.first.storage)[1].description = Groceries.description
           /\ Len(StoredTransactions(both.second.storage)) = 3
           /\ StoredTransactions(both.second.storage)[1].description = Freelance.description

(***************************************************************************)
(* C24.  The schema version tag is preserved: the version loaded from the  *)
(* blob ('2.0.0' when storage is empty or unreadable) is changed by no     *)
(* operation, and every blob written carries it.                           *)
(***************************************************************************)
OlderVersion == <<"1", ".", "0", ".", "0">>
\* the blob of the current data as an older release would have tagged it
OlderBlob == [JsonStringify(data) EXCEPT !.version = OlderVersion]

C24_VersionPreserved ==
    /\ Construct(NoBlob).data.version = DefaultVersion
    /\ Construct(Unreadable).data.version = DefaultVersion
    /\ data.version = DefaultVersion
    /\ storage # NoBlob => JsonParse(storage).version = DefaultVersion
    /\ Construct(OlderBlob).data.version = OlderVersion
    /\ \A o \in OutcomesOf(Construct(OlderBlob), OlderBlob) :
           /\ o.r.this.data.version = OlderVersion
           /\ JsonParse(o.r.storage).version = OlderVersion

\* the blob has been written and read back by a new DataManager
C24_Witness ==
    /\ storage # NoBlob
    /\ scenario = -1
    /\ data = JsonParse(storage)
    /\ LoggedIn
    /\ Len(Transactions) = 1
    /\ JsonParse(storage).version = DefaultVersion

(***************************************************************************)
(* The period navigation of SummaryScreen: the two buttons set             *)
(* currentPeriod to the previous and to the next period.  SpecPeriods      *)
(* starts on the January of any year of the range and navigates within it. *)
(***************************************************************************)
FirstYear == 2019
MaxYears == 10
Years == FirstYear..(FirstYear + MaxYears - 1)

InitPeriods ==
    /\ storage = NoBlob
    /\ data = Construct(NoBlob).data
    /\ currentUser = Construct(NoBlob).currentUser
    /\ clock = 0
    /\ writeFailures = 0
    /\ scenario = 0
    /\ currentPeriod \in {PeriodKey(year, 1) : year \in Years}

handlePeriodChange(newPeriod) ==
    /\ ParsePeriod(newPeriod).year \in Years
    /\ currentPeriod' = newPeriod
    /\ UNCHANGED <<data, currentUser, storage, clock, writeFailures, scenario>>

PreviousPeriod == handlePeriodChange(getPreviousPeriod(currentPeriod))
NextPeriod == handlePeriodChange(getNextPeriod(currentPeriod))

NextPeriods == PreviousPeriod \/ NextPeriod

SpecPeriods == InitPeriods /\ [][NextPeriods]_vars

(***************************************************************************)
(* C25.  Period-key arithmetic round-trips: for every valid key p,         *)
(* previous(next(p)) = p and next(previous(p)) = p, year rollovers         *)
(* included: next("2024-12") = "2025-01", previous("2024-01") = "2023-12". *)
(***************************************************************************)
IsPeriodKey(key) ==
    /\ Len(key) = 7
    /\ key[5] = "-"
    /\ \A i \in {1, 2, 3, 4, 6, 7} : IsDigit(key[i])
    /\ ParsePeriod(key).month \in 1..12

C25_PeriodRoundTrip ==
    /\ IsPeriodKey(currentPeriod)
    /\ IsPeriodKey(getNextPeriod(currentPeriod))
    /\ IsPeriodKey(getPreviousPeriod(currentPeriod))
    /\ getPreviousPeriod(getNextPeriod(currentPeriod)) = currentPeriod
    /\ getNextPeriod(getPreviousPeriod(currentPeriod)) = currentPeriod
    /\ currentPeriod = <<"2", "0", "2", "4", "-", "1", "2">>
           => getNextPeriod(currentPeriod) = <<"2", "0", "2", "5", "-", "0", "1">>
    /\ currentPeriod = Period_2024_01 => getPreviousPeriod(currentPeriod) = Period_2023_12

\* December 2024, reached by navigation (every run starts on a January)
C25_Witness ==
    /\ currentPeriod = <<"2", "0", "2", "4", "-", "1", "2">>
    /\ getNextPeriod(currentPeriod) = <<"2", "0", "2", "5", "-", "0", "1">>

(***************************************************************************)
(* C26.  The monthlyIncomes map of an account is changed by                *)
(* setMonthlyIncome only: a period never set reads as 0; reading an absent *)
(* period (getMonthlyIncome, getFinancialSummary, comparePeriods) creates  *)
(* no entry; setMonthlyIncome(p, x) changes the entry for p of the active  *)
(* account and no other; addTransaction, removeTransaction, addCategory,   *)
(* loginUser and logout leave every map as it was.                         *)
(***************************************************************************)
\* the monthlyIncomes map of every account
IncomesIn(d) == [u \in DOMAIN d.users |-> d.users[u].financial.monthlyIncomes]

C26_IncomesFrame ==
    /\ \A p \in PeriodKeys :
           (LoggedIn => p \notin DOMAIN Incomes) =>
               /\ getMonthlyIncome(This, p) = Fin(0)
               /\ LoggedIn => Summary(p).monthlyIncome = Fin(0)
    /\ \A o \in ReadOutcomesOf(This, storage, PeriodKeys) :
           IncomesIn(o.r.this.data) = IncomesIn(data)
    /\ \A p \in Periods, amount \in IncomeInputs, ok \in BOOLEAN :
           LET r == setMonthlyIncome(This, storage, p, amount, ok)
               after == IncomesIn(r.this.data)
           IN  IF ~LoggedIn \/ amount = NoNumber
               THEN after = IncomesIn(data)
               ELSE /\ \A u \in DOMAIN data.users \ {currentUser} :
                           after[u] = IncomesIn(data)[u]
                    /\ DOMAIN after[currentUser] = DOMAIN Incomes \cup {p}
                    /\ after[currentUser][p] = NormalizeIncome(amount)
                    /\ \A q \in DOMAIN Incomes \ {p} : after[currentUser][q] = Incomes[q]
    /\ \A o \in Outcomes :
           o.op \in {"addTransaction", "removeTransaction", "addCategory", "loginUser", "logout"}
               => IncomesIn(o.r.this.data) = IncomesIn(data)

\* one period set and another not, which reads as 0, with a transaction stored
C26_Witness ==
    /\ LoggedIn
    /\ Period_2024_01 \in DOMAIN Incomes
    /\ Period_2024_02 \notin DOMAIN Incomes
    /\ getMonthlyIncome(This, Period_2024_02) = Fin(0)
    /\ Len(Transactions) >= 1
    /\ setMonthlyIncome(This, storage, Period_2024_02, Fin(5000), TRUE).this # This

GivenCategories == {UNDEF, NULL, << >>, <<" ", " ">>, Food, Fuel, Outros, <<"o", "u", "t", "r", "o", "s">>}
GivenDates == {UNDEF, NULL, << >>, Groceries.date, ShortDate.date, <<"s", "o", "o", "n">>}

\* every category with a date, every date with a category, and neither
GivenPairs ==
    (GivenCategories \X {Groceries.date}) \cup ({Food} \X GivenDates) \cup {<<UNDEF, UNDEF>>}

IsAbsent(s) == s \in {UNDEF, NULL, << >>}

C28_CategoryAndDateDefaults ==
    LoggedIn =>
        \A given \in GivenPairs, rnd \in RandomValues, ok \in BOOLEAN :
            LET category == given[1]
                date == given[2]
                transactionData == [Groceries EXCEPT !.category = category, !.date = date]
                r == addTransaction(This, storage, transactionData, clock, rnd, ok)
                stored == TransactionsOf(r.this)[1]
            IN  /\ Len(TransactionsOf(r.this)) = Len(Transactions) + 1
                /\ stored.category = IF IsAbsent(category) THEN Outros ELSE category
                /\ stored.date = IF IsAbsent(date) THEN TodayString(clock) ELSE date
                /\ CurrentUserOf(r.this).financial.categories = Categories

\* stored: a transaction given no category, now "Outros", and one given no
\* date, now dated today, its category not among the account's categories
C28_Witness ==
    /\ LoggedIn
    /\ ~includes(Categories, Fuel)
    /\ \E i \in 1..Len(Transactions) :
           /\ Transactions[i].description = Freelance.description
           /\ Transactions[i].category = Outros
           /\ Transactions[i].date = Freelance.date
    /\ \E i \in 1..Len(Transactions) :
           /\ Transactions[i].description = NoDescription.description
           /\ Transactions[i].category = Fuel
           /\ Transactions[i].date = TodayString(Transactions[i].createdAt)

(***************************************************************************)
(* C29.  As claimed: the comparison of comparePeriods carries, for each of *)
(* income, expense and balance, an absolute change and a percentage        *)
(* change, the balance percentage with the same zero-baseline guard as the *)
(* other two.  The code has no percentage for the balance.                 *)
(***************************************************************************)
C29_BalancePercentExists ==
    LoggedIn =>
        \A p1 \in PeriodKeys, p2 \in PeriodKeys :
            LET c == comparePeriods(This, p1, p2)
            IN  /\ {"incomeChange", "expenseChange", "balanceChange",
                    "incomeChangePercent", "expenseChangePercent", "balanceChangePercent"}
                       \subseteq DOMAIN c.comparison
                /\ ~NumGt(c.period1.balance, Fin(0)) => c.comparison.balanceChangePercent = PctZero

(***************************************************************************)
(* C29, amended.  The comparison carries exactly five fields: the absolute *)
(* change of income, of expense and of balance, and the percentage change  *)
(* of income and of expense.  Each percentage is 0 unless the first        *)
(* period's total is greater than 0; it is then                            *)
(* 100 * (second - first) / first when both totals are finite, and NaN or  *)
(* infinite when one of them is.                                           *)
(***************************************************************************)
PercentOf(first, second) == [k |-> "fin", n |-> 100 * (second.v - first.v), d |-> first.v]

C29_ComparisonFields ==
    LoggedIn =>
        \A p1 \in PeriodKeys, p2 \in PeriodKeys :
            LET c == comparePeriods(This, p1, p2)
                s1 == c.period1
                s2 == c.period2
            IN  /\ DOMAIN c.comparison =
                       {"incomeChange", "expenseChange", "balanceChange",
                        "incomeChangePercent", "expenseChangePercent"}
                /\ c.comparison.balanceChange = NumSub(s2.balance, s1.balance)
                /\ ~NumGt(s1.totalIncome, Fin(0)) => c.comparison.incomeChangePercent = PctZero
                /\ ~NumGt(s1.totalExpenses, Fin(0)) => c.comparison.expenseChangePercent = PctZero
                /\ (NumGt(s1.totalIncome, Fin(0)) /\ s1.totalIncome.k = "fin" /\ s2.totalIncome.k = "fin")
                       => c.comparison.incomeChangePercent = PercentOf(s1.totalIncome, s2.totalIncome)
                /\ (NumGt(s1.totalExpenses, Fin(0)) /\ s1.totalExpenses.k = "fin"
                        /\ s2.totalExpenses.k = "fin")
                       => c.comparison.expenseChangePercent
                              = PercentOf(s1.totalExpenses, s2.totalExpenses)
                /\ (NumGt(s1.totalIncome, Fin(0))
                        /\ ~(s1.totalIncome.k = "fin" /\ s2.totalIncome.k = "fin"))
                       => c.comparison.incomeChangePercent.k # "fin"
                /\ (NumGt(s1.totalExpenses, Fin(0))
                        /\ ~(s1.totalExpenses.k = "fin" /\ s2.totalExpenses.k = "fin"))
                       => c.comparison.expenseChangePercent.k # "fin"

\* January against February with expenses in both and an income set in
\* January: a percentage over a positive baseline, and a balance that changes
C29_Witness ==
    /\ LoggedIn
    /\ LET c == comparePeriods(This, Period_2024_01, Period_2024_02)
       IN  /\ NumGt(c.period1.totalExpenses, Fin(0))
           /\ NumGt(c.period2.totalExpenses, Fin(0))
           /\ NumGt(c.period1.balance, Fin(0))
           /\ c.comparison.expenseChangePercent.k = "fin"
           /\ c.comparison.expenseChangePercent.n # 0
           /\ c.comparison.balanceChange.k = "fin"
           /\ c.comparison.balanceChange.v # 0
           /\ "balanceChangePercent" \notin DOMAIN c.comparison

(***************************************************************************)
(* Sessions.  SpecSessions starts from empty storage and takes any         *)
(* sequence of registerUser, loginUser, logout and ledger operations, with *)
(* two emails that give different ids, one of them the empty string, whose *)
(* id is empty, and a spelling of the first in capitals.                   *)
(***************************************************************************)
NoEmail == << >>
SessionEmails == {Email_ab, Email_AB, NoEmail, UNDEF}

NextSessions ==
    \/ RegisterUser(SessionEmails)
    \/ LoginUser(SessionEmails)
    \/ Logout
    \/ SetMonthlyIncome
    \/ AddTransaction
    \/ RemoveTransaction
    \/ AddCategory

SpecSessions == Init /\ [][NextSessions]_vars

(***************************************************************************)
(* C30.  Session invariant: in every state reached from empty storage by   *)
(* registerUser, loginUser, logout and the ledger operations, there is an  *)
(* active account if and only if data.currentUserId is not null, and the   *)
(* active account is then the entry data.users[currentUserId] itself.      *)
(***************************************************************************)
C30_SessionInvariant ==
    /\ currentUser = NULL <=> data.currentUserId = NULL
    /\ currentUser # NULL =>
           /\ currentUser = data.currentUserId
           /\ currentUser \in DOMAIN data.users
           /\ getCurrentUser(This) = data.users[data.currentUserId]
    /\ isLoggedIn(This) <=> data.currentUserId # NULL

\* two accounts, the session on the second after one on the first, with a
\* transaction stored through the session
C30_Witness ==
    /\ Cardinality(DOMAIN data.users) = 2
    /\ currentUser = generateUserId(NoEmail)
    /\ data.currentUserId = currentUser
    /\ Len(Transactions) = 1
    /\ data.users[data.currentUserId].financial.transactions = Transactions

(***************************************************************************)
(* C31.  Account isolation: setMonthlyIncome, addTransaction,              *)
(* removeTransaction and addCategory change the incomes, transactions and  *)
(* categories of the active account only, every other account is as it     *)
(* was; and a summary holds nothing of another account: it is the summary  *)
(* of the active account taken alone.                                      *)
(***************************************************************************)
\* the outcomes of the four ledger operations with every input of the model
LedgerOutcomesOf(this, blob) ==
    {[op |-> "setMonthlyIncome", ok |-> ok,
      r |-> setMonthlyIncome(this, blob, x[1], x[2], ok)] :
        x \in Periods \X IncomeInputs, ok \in BOOLEAN}
    \cup {[op |-> "addTransaction", ok |-> ok,
           r |-> addTransaction(this, blob, x[1], clock, x[2], ok)] :
        x \in TransactionInputs \X RandomValues, ok \in BOOLEAN}
    \cup {[op |-> "removeTransaction", ok |-> ok,
           r |-> removeTransaction(this, blob, transactionId, ok)] :
        transactionId \in TransactionIdInputs, ok \in BOOLEAN}
    \cup {[op |-> "addCategory", ok |-> ok, r |-> addCategory(this, blob, categoryName, ok)] :
        categoryName \in CategoryInputs, ok \in BOOLEAN}

\* the DataManager with the active account alone in its table
ActiveAlone(this) ==
    [this EXCEPT !.data.users = (this.currentUser :> CurrentUserOf(this))]

OtherAccounts == DOMAIN data.users \ {currentUser}

C31_AccountIsolation ==
    /\ \A o \in LedgerOutcomesOf(This, storage) :
           /\ DOMAIN o.r.this.data.users = DOMAIN data.users
           /\ \A u \in OtherAccounts : o.r.this.data.users[u] = data.users[u]
           /\ (o.r.wrote /\ o.ok) =>
                  \A u \in OtherAccounts :
                      JsonParse(o.r.storage).users[u] = JsonStringify(data).users[u]
    /\ LoggedIn =>
           \A p \in PeriodKeys :
               /\ getFinancialSummary(This, p) = getFinancialSummary(ActiveAlone(This), p)
               /\ getTransactionsByPeriod(This, p) = getTransactionsByPeriod(ActiveAlone(This), p)
               /\ getMonthlyIncome(This, p) = getMonthlyIncome(ActiveAlone(This), p)

\* two accounts, the one without the session holding a January transaction
\* and a January income, the active one a transaction of its own
C31_Witness ==
    /\ LoggedIn
    /\ \E u \in OtherAccounts :
           /\ Len(data.users[u].financial.transactions) = 1
           /\ Period_2024_01 \in DOMAIN data.users[u].financial.monthlyIncomes
           /\ InPeriod(data.users[u].financial.transactions[1], Period_2024_01)
    /\ Len(Transactions) = 1
    /\ Summary(Period_2024_01).transactionCount <= 1

(***************************************************************************)
(* C32.  With no active account, setMonthlyIncome, addTransaction,         *)
(* removeTransaction and addCategory return false, leave the account table *)
(* as it was and attempt no write: the blob is unchanged.                  *)
(***************************************************************************)
C32_NoSessionNoEffect ==
    ~LoggedIn =>
        \A o \in LedgerOutcomesOf(This, storage) :
            /\ o.r.ret = "false"
            /\ o.r.this = This
            /\ ~o.r.wrote
            /\ o.r.storage = storage

\* after a logout: an account with a transaction in the table and in the
\* blob, no session, and a transaction id that would be found with one
C32_Witness ==
    /\ ~LoggedIn
    /\ storage = JsonStringify(data)
    /\ \E u \in DOMAIN data.users :
           /\ Len(data.users[u].financial.transactions) >= 1
           /\ data.users[u].financial.transactions[1].id \in TransactionIdInputs
    /\ addTransaction(This, storage, Groceries, clock, "r", TRUE).ret = "false"

(***************************************************************************)
(* C33.  Accounts are never deleted and survive session changes: no        *)
(* operation removes an entry of the account table, and after logout and   *)
(* loginUser with the same email, in any letter case, the account's        *)
(* transactions, monthly incomes and categories are what they were before  *)
(* the logout.                                                             *)
(***************************************************************************)
C33_AccountsSurvive ==
    /\ \A o \in Outcomes : DOMAIN data.users \subseteq DOMAIN o.r.this.data.users
    /\ LoggedIn =>
           \A email \in {Email_ab, Email_AB}, ok1 \in BOOLEAN, ok2 \in BOOLEAN :
               generateUserId(email) = currentUser =>
                   LET out == logout(This, storage, ok1)
                       back == loginUser(out.this, out.storage, email, clock, ok2)
                   IN  /\ out.this.currentUser = NULL
                       /\ currentUser \in DOMAIN out.this.data.users
                       /\ out.this.data.users[currentUser].financial
                              = CurrentUserOf(This).financial
                       /\ back.ret = "success"
                       /\ back.this.currentUser = currentUser
                       /\ CurrentUserOf(back.this).financial = CurrentUserOf(This).financial

\* an account with a transaction, an income and a category of its own,
\* logged in with the other spelling of its email
C33_Witness ==
    /\ LoggedIn
    /\ Len(Transactions) = 1
    /\ Cardinality(DOMAIN Incomes) = 1
    /\ Len(Categories) = Len(DefaultCategories) + 1
    /\ loginUser(logout(This, storage, TRUE).this, logout(This, storage, TRUE).storage,
                 Email_AB, clock, TRUE).this.currentUser = currentUser

(***************************************************************************)
(* C34.  A mutation whose write failed is lost by a reload only until the  *)
(* next successful write: the mutation stays in memory, every write        *)
(* serializes the whole of it, and so the first later mutating call whose  *)
(* write succeeds makes the earlier mutation durable, although its caller  *)
(* was told false.                                                         *)
(***************************************************************************)
\* a transaction added while the write fails
FailedAdds ==
    {addTransaction(This, storage, transactionData, clock, rnd, FALSE) :
        transactionData \in {Groceries, NoDescription}, rnd \in RandomValues}

\* the mutating calls that leave the transactions alone, made on the
\* DataManager `this` with the write succeeding
LaterWrites(this, blob) ==
    {setMonthlyIncome(this, blob, Period_2024_01, Fin(5000), TRUE),
     addCategory(this, blob, Food, TRUE),
     addCategory(this, blob, Fuel, TRUE),
     loginUser(this, blob, Email_AB, clock, TRUE),
     logout(this, blob, TRUE)}

StoredTransactionsOf(blob, userId) == JsonParse(blob).users[userId].financial.transactions

C34_FailedWriteMadeDurable ==
    LoggedIn =>
        \A failed \in FailedAdds :
            /\ failed.ret = "false"
            /\ failed.wrote
            /\ failed.storage = storage
            /\ Len(TransactionsOf(failed.this)) = Len(Transactions) + 1
            \* a reload at this point constructs what it would have before the call
            /\ Construct(failed.storage) = Construct(storage)
            /\ \A later \in LaterWrites(failed.this, failed.storage) :
                   later.wrote =>
                       /\ later.storage = JsonStringify(later.this.data)
                       /\ Construct(later.storage).data = JsonStringify(later.this.data)
                       /\ StoredTransactionsOf(later.storage, currentUser)
                              = JsonStringify(failed.this.data).users[currentUser]
                                    .financial.transactions
                       /\ Len(StoredTransactionsOf(later.storage, currentUser))
                              = Len(Transactions) + 1
            /\ LET next == addTransaction(failed.this, failed.storage, Freelance, clock, "r", TRUE)
               IN  /\ Len(StoredTransactionsOf(next.storage, currentUser)) = Len(Transactions) + 2
                   /\ SubSeq(StoredTransactionsOf(next.storage, currentUser), 2,
                             Len(Transactions) + 2)
                          = JsonStringify(failed.this.data).users[currentUser]
                                .financial.transactions

\* a write has failed, and the blob now holds all that is in memory, a
\* transaction and a category among it
C34_Witness ==
    /\ LoggedIn
    /\ writeFailures = 1
    /\ Len(Transactions) = 1
    /\ includes(Categories, Food)
    /\ storage = JsonStringify(data)
    /\ Construct(storage).data = storage

(***************************************************************************)
(* C35.  When the write fails during registerUser, the call returns the    *)
(* failure "Erro ao salvar dados", but the new account is in the table in  *)
(* memory and is the active account (isLoggedIn is true), and registerUser *)
(* called again with the same email returns the failure "Usuario ja        *)
(* existe".                                                                *)
(***************************************************************************)
Email_cd == <<"c", "@", "d", ".", "c", "o", "m">>

C35_FailedRegisterStays ==
    \A email \in {Email_ab, Email_cd} :
        ~Registered(email) =>
            LET userData == [name |-> Name_Ana, email |-> email]
                userId == generateUserId(email)
                first == registerUser(This, storage, userData, clock, FALSE)
            IN  /\ first.ret = "failure: Erro ao salvar dados"
                /\ first.wrote
                /\ first.storage = storage
                /\ DOMAIN first.this.data.users = DOMAIN data.users \cup {userId}
                /\ first.this.data.users[userId] = createUserStructure(userId, userData, clock)
                /\ first.this.currentUser = userId
                /\ first.this.data.currentUserId = userId
                /\ isLoggedIn(first.this)
                /\ \A ok \in BOOLEAN :
                       LET again == registerUser(first.this, first.storage, userData, clock, ok)
                       IN  /\ again.ret = "failure: Usuario ja existe"
                           /\ again.this = first.this
                           /\ ~again.wrote
                           /\ again.storage = storage

\* the write of the first registerUser has failed: the account is in memory
\* with the session, storage is empty, and registering again is refused
C35_Witness ==
    /\ writeFailures = 1
    /\ storage = NoBlob
    /\ LoggedIn
    /\ Registered(Email_ab)
    /\ registerUser(This, storage, [name |-> Name_Ana, email |-> Email_ab], clock, TRUE).ret
           = "failure: Usuario ja existe"

(***************************************************************************)
(* C36.  Period isolation: for distinct well-formed period keys P and Q,   *)
(* setMonthlyIncome(P, x), addTransaction with a date in P and             *)
(* removeTransaction of a transaction dated in P leave                     *)
(* getFinancialSummary(Q) as it was: every numeric field,                  *)
(* expensesByCategory and the list of transactions.                        *)
(* The code does not keep this for removeTransaction: it removes the first *)
(* transaction with the id given, and that one may be dated in Q when two  *)
(* transactions share an id (C19).                                         *)
(***************************************************************************)
C36_PeriodIsolation ==
    LoggedIn =>
        \A P \in PeriodKeys, Q \in PeriodKeys :
            P # Q =>
                /\ \A amount \in IncomeInputs, ok \in BOOLEAN :
                       getFinancialSummary(setMonthlyIncome(This, storage, P, amount, ok).this, Q)
                           = Summary(Q)
                /\ \A transactionData \in TransactionInputs, rnd \in RandomValues, ok \in BOOLEAN :
                       InPeriod(NewTransaction(transactionData, clock, rnd), P) =>
                           getFinancialSummary(
                               addTransaction(This, storage, transactionData, clock, rnd, ok).this, Q)
                               = Summary(Q)
                /\ \A i \in 1..Len(Transactions), ok \in BOOLEAN :
                       InPeriod(Transactions[i], P) =>
                           getFinancialSummary(
                               removeTransaction(This, storage, Transactions[i].id, ok).this, Q)
                               = Summary(Q)

(***************************************************************************)
(* C37.  addTransaction followed by removeTransaction of the id returned   *)
(* restores the transaction sequence to what it was before the add; and    *)
(* removeTransaction of an id in the sequence removes exactly one element  *)
(* and keeps the others in their order.                                    *)
(***************************************************************************)
C37_AddThenRemove ==
    LoggedIn =>
        /\ \A transactionData \in TransactionInputs, rnd \in RandomValues, ok \in BOOLEAN :
               LET added == addTransaction(This, storage, transactionData, clock, rnd, TRUE)
                   returned == TransactionsOf(added.this)[1]
                   removed == removeTransaction(added.this, added.storage, returned.id, ok)
               IN  /\ added.ret = "transaction"
                   /\ returned = NewTransaction(transactionData, clock, rnd)
                   /\ TransactionsOf(removed.this) = Transactions
                   /\ removed.this = This
                   /\ removed.ret = IF ok THEN "true" ELSE "false"
                   /\ ok => removed.storage = JsonStringify(data)
        /\ \A i \in 1..Len(Transactions), ok \in BOOLEAN :
               LET after == TransactionsOf(
                                removeTransaction(This, storage, Transactions[i].id, ok).this)
               IN  /\ Len(after) = Len(Transactions) - 1
                   /\ \E j \in 1..Len(Transactions) :
                          /\ Transactions[j].id = Transactions[i].id
                          /\ \A k \in 1..Len(after) :
                                 after[k] = Transactions[IF k < j THEN k ELSE k + 1]

\* two transactions with the same id and a third, so that the element
\* removed is told from its neighbours by position only
C37_Witness ==
    /\ LoggedIn
    /\ Len(Transactions) = 3
    /\ Transactions[2].id = Transactions[3].id
    /\ Transactions[1].id # Transactions[2].id
    /\ Transactions[2] # Transactions[3]
    /\ Len(TransactionsOf(removeTransaction(This, storage, Transactions[3].id, TRUE).this)) = 2

(***************************************************************************)
(* C38.  Session restore on reload: a DataManager constructed over a       *)
(* stored blob has an active account if and only if the blob's             *)
(* currentUserId names an account present in the blob, and the active      *)
(* account is then that account as stored; so a reload after a register or *)
(* login that was written is logged in to that account, and a reload after *)
(* a logout that was written is logged out.                                *)
(* The code does not keep this: the constructor tests currentUserId for    *)
(* truthiness, and the id of the email "" is the empty string.             *)
(***************************************************************************)
\* the blob names an account it holds
NamesAccount(blob) ==
    /\ blob \notin {NoBlob, Unreadable}
    /\ JsonParse(blob).currentUserId # NULL
    /\ JsonParse(blob).currentUserId \in DOMAIN JsonParse(blob).users

Restores(blob) ==
    LET constructed == Construct(blob)
    IN  /\ constructed.currentUser # NULL <=> NamesAccount(blob)
        /\ NamesAccount(blob) =>
               /\ constructed.currentUser = JsonParse(blob).currentUserId
               /\ getCurrentUser(constructed)
                      = JsonParse(blob).users[JsonParse(blob).currentUserId]

C38_SessionRestore ==
    /\ Restores(storage)
    /\ \A email \in SessionEmails \ {UNDEF} :
           LET userData == [name |-> Name_Ana, email |-> email]
               registered == registerUser(This, storage, userData, clock, TRUE)
               loggedIn == loginUser(This, storage, email, clock, TRUE)
           IN  /\ registered.ret = "success" =>
                      /\ Restores(registered.storage)
                      /\ Construct(registered.storage).currentUser = generateUserId(email)
                      /\ Construct(registered.storage).data = JsonStringify(registered.this.data)
               /\ loggedIn.ret = "success" =>
                      /\ Restores(loggedIn.storage)
                      /\ Construct(loggedIn.storage).currentUser = generateUserId(email)
                      /\ Construct(loggedIn.storage).data = JsonStringify(loggedIn.this.data)
    /\ Restores(logout(This, storage, TRUE).storage)
    /\ Construct(logout(This, storage, TRUE).storage).currentUser = NULL

(***************************************************************************)
(* C39.  Rejected operations leave the state untouched: loginUser with an  *)
(* email that is not registered returns failure and keeps the active       *)
(* account, if any; addCategory with a blank or duplicate name returns     *)
(* false; in both cases the account table in memory and the blob are as    *)
(* they were and no write is attempted.                                    *)
(* The code does not keep this: for an email whose id spells a key of      *)
(* Object.prototype, loginUser finds the inherited function and throws.    *)
(***************************************************************************)
\* an email never registered whose id is "valueOf"
Email_valueOf == <<"½", "©", "n", "x", "ç", "þ">>

UnregisteredEmails ==
    {email \in {Email_ab, Email_AB, Email_cd, NoEmail, Email_valueOf} : ~Registered(email)}

C39_RejectedLeavesState ==
    /\ \A email \in UnregisteredEmails, ok \in BOOLEAN :
           LET r == loginUser(This, storage, email, clock, ok)
           IN  /\ r.ret = "failure: Usuario nao encontrado"
               /\ r.this = This
               /\ r.storage = storage
               /\ ~r.wrote
    /\ LoggedIn =>
           \A name \in CategoryNames, ok \in BOOLEAN :
               (Trim(name) = << >> \/ includes(Categories, name)) =>
                   LET r == addCategory(This, storage, name, ok)
                   IN  /\ r.ret = "false"
                       /\ r.this = This
                       /\ r.storage = storage
                       /\ ~r.wrote

(***************************************************************************)
(* C40.  The two implementations agree on period filtering and totals: for *)
(* the same account state and any period key of 7 characters without       *)
(* surrounding white space, DataManager.js (date.startsWith(key)) and      *)
(* DataManager.ts (date.substring(0, 7) === key.trim()) answer the same    *)
(* sequence from getTransactionsByPeriod and the same monthlyIncome,       *)
(* totalIncome, totalExpenses, balance, transactionCount and               *)
(* expensesByCategory from getFinancialSummary.                            *)
(* The code does not keep this for the key "valueOf": monthlyIncome is the *)
(* function inherited from Object.prototype, and the two versions add it   *)
(* to the period's income in opposite orders, which concatenates.          *)
(***************************************************************************)
\* keys of 7 characters: the periods in use, a month that does not exist,
\* a key with a space inside, today's date cut to 7, keys that are no dates
DateLikeKeys ==
    PeriodKeys \cup {<<"2", "0", "2", "4", "-", "1", "3">>,
                     <<"2", "0", "2", "4", " ", "0", "1">>,
                     Substring0(TodayString(clock), 7),
                     <<"2", "0", "2", "4", "-", "0", "x">>}

SevenCharacterKeys == DateLikeKeys \cup {<<"v", "a", "l", "u", "e", "O", "f">>}

TotalsOf(summary) ==
    [monthlyIncome |-> summary.monthlyIncome,
     totalIncome |-> summary.totalIncome,
     totalExpenses |-> summary.totalExpenses,
     balance |-> summary.balance,
     transactionCount |-> summary.transactionCount,
     expensesByCategory |-> summary.expensesByCategory]

C40_ImplementationsAgree ==
    \A key \in SevenCharacterKeys :
        /\ Len(key) = 7 /\ Trim(key) = key
        /\ getTransactionsByPeriod_js(This, key) = getTransactionsByPeriod(This, key)
        /\ IF LoggedIn
           THEN TotalsOf(getFinancialSummary_js(This, key)) = TotalsOf(getFinancialSummary(This, key))
           ELSE getFinancialSummary_js(This, key) = getFinancialSummary(This, key)

=============================================================================
